---- MODULE Spec2Model ----
(***************************************************************************)
(* The UI bridge of yourcontrols: the UIBackend trait (ui/mod.rs), the     *)
(* egui backend (ui/egui_backend.rs) and the WebView backend               *)
(* (ui/webview.rs), as a state machine of the application thread and the   *)
(* UI thread of one backend instance.                                      *)
(*                                                                         *)
(* Option<T> is a sequence of length 0 (None) or 1 (Some).  Result<T, E>   *)
(* is the same where only Ok's value matters.  A crossbeam unbounded       *)
(* channel is a FIFO sequence plus one flag per side saying whether that   *)
(* side still exists.                                                      *)
(***************************************************************************)
EXTENDS Integers, Sequences, FiniteSets, TLC

VARIABLES
    backend,        \* which UIBackend implementation setup() built
    uiPc,           \* position of the UI thread
    appPc,          \* position of the application thread
    exited,         \* the AtomicBool behind exited()
    exitedWrites,   \* history: number of stores to the AtomicBool
    lastExited,     \* history: what the last exited() call returned
    txAlive,        \* the inbound Sender (action_tx / tx) still exists
    inbound,        \* messages queued on the inbound channel
    sent,           \* history: messages the UI thread sent, in order
    received,       \* history: messages get_next_message() returned
    lastPoll,       \* history: outcome of the last get_next_message()
    discPolls,      \* history: polls that returned Disconnected (0, 1, 2 = more)
    lastArg,        \* history: the last string the bridge handler was given
    event_rx_alive, \* egui: the outbound Receiver (event_rx) still exists
    event_ch,       \* egui: events queued on the outbound channel
    event_queue,    \* egui: YourControlsApp.event_queue
    app,            \* egui: the rest of YourControlsApp (the render state)
    applied,        \* history: ids of the events handle_event handled
    calls,          \* history: invoke calls (type_string, data), in order
    wcalls,         \* history: convenience-method calls, in order
    lastInvoke,     \* history: what the last invoke call did
    app_handle,     \* webview: the Option behind the Mutex
    mutex,          \* webview: who holds the Mutex
    webLive,        \* webview: the WebView object exists
    dispatchQ,      \* webview: closures dispatched and not yet run
    evals,          \* history: scripts the WebView evaluated
    pending,        \* webview: the invoke call in progress
    lost,           \* history: ids of the webview calls that found no handle
    tick,           \* history: invoke calls made when the drain of the
                    \* current tick began, and when it ended
    handled,        \* history: the call whose event handle_event handled last
    wire,           \* codec: serialised ConnectionMethod texts not yet read
    decoded,        \* codec history: texts read, with what they decoded to
    clicks          \* history: the host and join buttons clicked so far

vars == <<backend, uiPc, appPc, exited, exitedWrites, lastExited, txAlive,
          inbound, sent, received, lastPoll, discPolls, lastArg,
          event_rx_alive, event_ch, event_queue, app, applied, calls, wcalls,
          lastInvoke, app_handle, mutex, webLive, dispatchQ, evals, pending,
          lost, tick, handled, wire, decoded, clicks>>

-----------------------------------------------------------------------------
(* Bounds of the model.                                                    *)

\* invoke calls the application makes in one run
MaxInvokes == 2
\* inbound messages the user causes in one run (Startup not counted)
MaxUserActions == 1
\* convenience-method calls on the recording backend in one run
MaxWrapperCalls == 2
\* ConnectionMethod texts written in one run
MaxTexts == 3
\* invoke calls whose events the reducer handles in one run
MaxEvents == 4
\* entries of the aircraft list the user clicks in one run
MaxSelections == 2

-----------------------------------------------------------------------------
(* Option / Result.                                                        *)

None == <<>>
Some(x) == <<x>>
IsSome(o) == o # <<>>
UnwrapOr(o, d) == IF o = <<>> THEN d ELSE o[1]

-----------------------------------------------------------------------------
(* JSON texts.  A text is a TLA+ string; serde_json::from_str is a table   *)
(* over the texts the model uses, and fails on every other string.  A      *)
(* parsed serde_json::Value is [t, f]: t its type, f the members of an     *)
(* object.  A member is [t, n, s, b]; numbers are kept in hundredths; a     *)
(* number is u64 (a non-negative integer), i64 (a negative integer) or f64 *)
(* (written with a fraction), as serde_json::Number keeps them.            *)

JNull == [t |-> "null", n |-> 0, s |-> "", b |-> FALSE]
JU64(n) == [t |-> "u64", n |-> n * 100, s |-> "", b |-> FALSE]
JI64(n) == [t |-> "i64", n |-> n * 100, s |-> "", b |-> FALSE]
JF64(h) == [t |-> "f64", n |-> h, s |-> "", b |-> FALSE]
JStr(s) == [t |-> "str", n |-> 0, s |-> s, b |-> FALSE]
JBool(b) == [t |-> "bool", n |-> 0, s |-> "", b |-> b]

JObj(f) == [t |-> "obj", f |-> f]

NoMembers == [k \in {} |-> JNull]

\* the metrics snapshots the application reports (laminar::Metrics), in
\* hundredths for the fractional fields
SampleMetrics ==
    { [sent_packets |-> 0, received_packets |-> 0, sent_kbps |-> 0,
       receive_kbps |-> 0, packet_loss |-> 0, rtt |-> 0],
      [sent_packets |-> 3, received_packets |-> 2, sent_kbps |-> 1250,
       receive_kbps |-> 700, packet_loss |-> 25, rtt |-> 3000] }

\* json!({...}).to_string() of send_network: keys in serde_json's map order
MetricsJsonText(m) ==
    IF m.sent_packets = 0
    THEN "{\"packetLoss\":0.0,\"ping\":0.0,\"receiveBandwidth\":0.0,\"receivePackets\":0,\"sentBandwidth\":0.0,\"sentPackets\":0}"
    ELSE "{\"packetLoss\":0.25,\"ping\":15.0,\"receiveBandwidth\":7.0,\"receivePackets\":2,\"sentBandwidth\":12.5,\"sentPackets\":3}"

\* serde_json::from_str::<serde_json::Value>
ParseJson(text) ==
    CASE text = "{}" -> Some(JObj(NoMembers))
      [] text = "{\"sentBandwidth\":12.5}" ->
            Some(JObj("sentBandwidth" :> JF64(1250)))
      [] text = "{\"packetLoss\":0.0,\"ping\":0.0,\"receiveBandwidth\":0.0,\"receivePackets\":0,\"sentBandwidth\":0.0,\"sentPackets\":0}" ->
            Some(JObj(("packetLoss" :> JF64(0)) @@ ("ping" :> JF64(0))
                      @@ ("receiveBandwidth" :> JF64(0))
                      @@ ("receivePackets" :> JU64(0))
                      @@ ("sentBandwidth" :> JF64(0))
                      @@ ("sentPackets" :> JU64(0))))
      [] text = "{\"packetLoss\":0.25,\"ping\":15.0,\"receiveBandwidth\":7.0,\"receivePackets\":2,\"sentBandwidth\":12.5,\"sentPackets\":3}" ->
            Some(JObj(("packetLoss" :> JF64(25)) @@ ("ping" :> JF64(1500))
                      @@ ("receiveBandwidth" :> JF64(700))
                      @@ ("receivePackets" :> JU64(2))
                      @@ ("sentBandwidth" :> JF64(1250))
                      @@ ("sentPackets" :> JU64(3))))
      [] text = "{\"sentPackets\":\"3\",\"ping\":true,\"packetLoss\":0.25}" ->
            Some(JObj(("sentPackets" :> JStr("3")) @@ ("ping" :> JBool(TRUE))
                      @@ ("packetLoss" :> JF64(25))))
      [] text = "{\"sentPackets\":2.5,\"receivePackets\":-1,\"sentBandwidth\":7}" ->
            Some(JObj(("sentPackets" :> JF64(250))
                      @@ ("receivePackets" :> JI64(-1))
                      @@ ("sentBandwidth" :> JU64(7))))
      [] text = "[1]" -> Some([t |-> "arr", f |-> NoMembers])
      [] text = "{\"conn_timeout\":60,\"name\":\"Bob\",\"port\":8080,\"ui_dark_theme\":true}" ->
            Some(JObj(("conn_timeout" :> JU64(60)) @@ ("name" :> JStr("Bob"))
                      @@ ("port" :> JU64(8080))
                      @@ ("ui_dark_theme" :> JBool(TRUE))))
      [] text = "{\"port\":8080}" -> Some(JObj("port" :> JU64(8080)))
      [] text = "{\"conn_timeout\":2.5,\"name\":5,\"port\":\"8080\",\"ui_dark_theme\":true}" ->
            Some(JObj(("conn_timeout" :> JF64(250)) @@ ("name" :> JU64(5))
                      @@ ("port" :> JStr("8080"))
                      @@ ("ui_dark_theme" :> JBool(TRUE))))
      [] OTHER -> None

\* json["key"]: Null when json is no object or has no such member
Member(json, key) ==
    IF json.t = "obj" /\ key \in DOMAIN json.f THEN json.f[key] ELSE JNull

\* Value::as_u64, the integer itself
AsU64(v) == IF v.t = "u64" THEN Some(v.n \div 100) ELSE None
\* Value::as_f64, in hundredths
AsF64(v) == IF v.t \in {"u64", "i64", "f64"} THEN Some(v.n) ELSE None
\* f64 as f32, over the numbers of the model: a multiple of 1/4 of this
\* size has an exact f32, so the cast keeps it
AsF32(h) == CASE h % 25 = 0 /\ h \in -100000..100000 -> h

-----------------------------------------------------------------------------
(* ConnectionMethod (mod.rs) and its derived Serialize and Deserialize.    *)
(* A text is a sequence of characters here, so that the renaming of the    *)
(* variants is computed and not looked up.                                 *)

ConnectionMethods == {"Direct", "Relay", "CloudServer"}

\* the identifier of each variant as the enum declares it
Spelling(v) ==
    CASE v = "Direct" -> <<"D", "i", "r", "e", "c", "t">>
      [] v = "Relay" -> <<"R", "e", "l", "a", "y">>
      [] v = "CloudServer" ->
            <<"C", "l", "o", "u", "d", "S", "e", "r", "v", "e", "r">>

UpperCase == <<"A", "B", "C", "D", "E", "F", "G", "H", "I", "J", "K", "L", "M",
               "N", "O", "P", "Q", "R", "S", "T", "U", "V", "W", "X", "Y", "Z">>
LowerCase == <<"a", "b", "c", "d", "e", "f", "g", "h", "i", "j", "k", "l", "m",
               "n", "o", "p", "q", "r", "s", "t", "u", "v", "w", "x", "y", "z">>

\* char::to_ascii_lowercase
ToAsciiLowercase(ch) ==
    IF \E i \in 1..Len(UpperCase) : UpperCase[i] = ch
    THEN LowerCase[CHOOSE i \in 1..Len(UpperCase) : UpperCase[i] = ch]
    ELSE ch

\* a slip: the rename_all attribute is missing
CamelCase_none(name) == name

\* rename_all = "camelCase" on a variant: its first character in lower case
CamelCase(name) == <<ToAsciiLowercase(Head(name))>> \o Tail(name)

\* the token of a variant
Token(v) == CamelCase(Spelling(v))

\* a JSON string without escapes
Quoted(chars) == <<"\"">> \o chars \o <<"\"">>

\* serde_json::to_string(&method): the token as a JSON string
Serialize(v) == Quoted(Token(v))

\* serde_json::from_str::<ConnectionMethod>(text): the variant whose token
\* the JSON string holds, None for an Err
Deserialize(text) ==
    IF \E v \in ConnectionMethods : text = Quoted(Token(v))
    THEN Some(CHOOSE v \in ConnectionMethods : text = Quoted(Token(v)))
    ELSE None

\* texts that come from elsewhere (the page's script, a file): the variants
\* as declared, in upper and in lower case, a token without quotes, a string
\* that is not closed, an empty text
ForeignTexts ==
    {Quoted(Spelling(v)) : v \in ConnectionMethods}
    \cup {Quoted(<<"D", "I", "R", "E", "C", "T">>),
          Quoted(<<"c", "l", "o", "u", "d", "s", "e", "r", "v", "e", "r">>),
          <<"r", "e", "l", "a", "y">>,
          <<"\"", "d", "i", "r", "e", "c", "t">>,
          <<>>}

-----------------------------------------------------------------------------
(* The convenience methods of the UIBackend trait (mod.rs).                *)

\* a convenience-method call: the method w, its &str argument s (if it has
\* one), its bool argument b (FALSE if it has none), its &Metrics argument m
WCall(w, s, b, m) == [w |-> w, s |-> s, b |-> b, m |-> m]

\* an invoke call
Inv(type_string, data) == [type_string |-> type_string, data |-> data]

\* the default methods that make one fixed invoke call
PlainInvoke(c) ==
    CASE c.w = "error" -> Inv("error", Some(c.s[1]))
      [] c.w = "attempt" -> Inv("attempt", None)
      [] c.w = "connected" -> Inv("connected", None)
      [] c.w = "server_fail" -> Inv("server_fail", Some(c.s[1]))
      [] c.w = "client_fail" -> Inv("client_fail", Some(c.s[1]))
      [] c.w = "gain_control" -> Inv("control", None)
      [] c.w = "lose_control" -> Inv("lostcontrol", None)
      [] c.w = "server_started" -> Inv("server", None)
      [] c.w = "set_session_code" -> Inv("session", Some(c.s[1]))
      [] c.w = "set_host" -> Inv("host", None)
      [] c.w = "new_connection" -> Inv("newconnection", Some(c.s[1]))
      [] c.w = "lost_connection" -> Inv("lostconnection", Some(c.s[1]))
      [] c.w = "set_incontrol" -> Inv("set_incontrol", Some(c.s[1]))
      [] c.w = "add_aircraft" -> Inv("add_aircraft", Some(c.s[1]))
      [] c.w = "version" -> Inv("version", Some(c.s[1]))
      [] c.w = "update_failed" -> Inv("update_failed", None)
      [] c.w = "send_config" -> Inv("config_msg", Some(c.s[1]))
      [] c.w = "send_network" ->
            Inv("metrics", Some(MetricsJsonText(c.m[1])))

\* a slip: observing and set_observing test the flag the wrong way round
WrapperInvoke_flagInverted(c) ==
    CASE c.w = "observing" ->
            IF ~c.b THEN Inv("observing", None) ELSE Inv("stop_observing", None)
      [] c.w = "set_observing" ->
            IF ~c.b THEN Inv("set_observing", Some(c.s[1]))
                    ELSE Inv("set_not_observing", Some(c.s[1]))
      [] OTHER -> PlainInvoke(c)

\* the invoke call each default method of the trait makes; observing and
\* set_observing choose the type string by their flag
WrapperInvoke(c) ==
    CASE c.w = "observing" ->
            IF c.b THEN Inv("observing", None) ELSE Inv("stop_observing", None)
      [] c.w = "set_observing" ->
            IF c.b THEN Inv("set_observing", Some(c.s[1]))
                   ELSE Inv("set_not_observing", Some(c.s[1]))
      [] OTHER -> PlainInvoke(c)

\* the methods by the arguments they take
NoArgWrappers ==
    {"attempt", "connected", "gain_control", "lose_control", "server_started",
     "set_host", "update_failed"}
StrArgWrappers ==
    {"error", "server_fail", "client_fail", "set_session_code",
     "new_connection", "lost_connection", "set_incontrol", "add_aircraft",
     "version", "send_config"}

-----------------------------------------------------------------------------
(* EguiBackend::invoke (egui_backend.rs): from (type_string, data) to the  *)
(* UiEvent it sends, if any.                                               *)

NoMetrics ==
    [sent_packets |-> 0, received_packets |-> 0, sent_kbps |-> 0,
     receive_kbps |-> 0, packet_loss |-> 0, ping |-> 0]

\* a UiEvent: its variant, and the String, bool and numbers it carries
UiEvent(kind, s, b, m) == [kind |-> kind, s |-> s, b |-> b, m |-> m]

\* the type strings the match of invoke names
KnownTags ==
    {"error", "attempt", "connected", "server_fail", "client_fail", "control",
     "lostcontrol", "server", "session", "host", "newconnection",
     "lostconnection", "observing", "stop_observing", "set_observing",
     "set_not_observing", "set_incontrol", "add_aircraft", "version",
     "update_failed", "config_msg", "metrics"}

\* a slip: a key that is missing or mistyped gives up the whole message
MetricsEvent_allOrNothing(data) ==
    IF IsSome(data) /\ IsSome(ParseJson(data[1]))
    THEN LET json == ParseJson(data[1])[1]
             u(k) == AsU64(Member(json, k))
             f(k) == AsF64(Member(json, k))
         IN IF /\ \A k \in {"sentPackets", "receivePackets"} : IsSome(u(k))
               /\ \A k \in {"sentBandwidth", "receiveBandwidth",
                             "packetLoss", "ping"} : IsSome(f(k))
            THEN Some(UiEvent("SendMetrics", "", FALSE,
                   [sent_packets |-> u("sentPackets")[1],
                    received_packets |-> u("receivePackets")[1],
                    sent_kbps |-> AsF32(f("sentBandwidth")[1]),
                    receive_kbps |-> AsF32(f("receiveBandwidth")[1]),
                    packet_loss |-> AsF32(f("packetLoss")[1]),
                    ping |-> AsF32(f("ping")[1])]))
            ELSE None
    ELSE None

\* the "metrics" arm: an event only for data that is present and parses
MetricsEvent(data) ==
    IF IsSome(data) /\ IsSome(ParseJson(data[1]))
    THEN LET json == ParseJson(data[1])[1] IN
         Some(UiEvent("SendMetrics", "", FALSE,
            [sent_packets |-> UnwrapOr(AsU64(Member(json, "sentPackets")), 0),
             received_packets |->
                 UnwrapOr(AsU64(Member(json, "receivePackets")), 0),
             sent_kbps |->
                 AsF32(UnwrapOr(AsF64(Member(json, "sentBandwidth")), 0)),
             receive_kbps |->
                 AsF32(UnwrapOr(AsF64(Member(json, "receiveBandwidth")), 0)),
             packet_loss |->
                 AsF32(UnwrapOr(AsF64(Member(json, "packetLoss")), 0)),
             ping |-> AsF32(UnwrapOr(AsF64(Member(json, "ping")), 0))]))
    ELSE None

\* the arms of the match for the type strings it names
KnownEvent(type_string, data) ==
    LET E(kind, s, b) == Some(UiEvent(kind, s, b, NoMetrics)) IN
    CASE type_string = "error" -> E("Error", UnwrapOr(data, "Unknown error"), FALSE)
      [] type_string = "attempt" -> E("Attempt", "", FALSE)
      [] type_string = "connected" -> E("Connected", "", FALSE)
      [] type_string = "server_fail" ->
            E("ServerFail", UnwrapOr(data, "Unknown reason"), FALSE)
      [] type_string = "client_fail" ->
            E("ClientFail", UnwrapOr(data, "Unknown reason"), FALSE)
      [] type_string = "control" -> E("GainControl", "", FALSE)
      [] type_string = "lostcontrol" -> E("LoseControl", "", FALSE)
      [] type_string = "server" -> E("ServerStarted", "", FALSE)
      [] type_string = "session" -> E("SessionCode", UnwrapOr(data, ""), FALSE)
      [] type_string = "host" -> E("SetHost", "", FALSE)
      [] type_string = "newconnection" ->
            E("NewConnection", UnwrapOr(data, ""), FALSE)
      [] type_string = "lostconnection" ->
            E("LostConnection", UnwrapOr(data, ""), FALSE)
      [] type_string = "observing" -> E("Observing", "", TRUE)
      [] type_string = "stop_observing" -> E("Observing", "", FALSE)
      [] type_string = "set_observing" ->
            E("SetObserving", UnwrapOr(data, ""), TRUE)
      [] type_string = "set_not_observing" ->
            E("SetObserving", UnwrapOr(data, ""), FALSE)
      [] type_string = "set_incontrol" ->
            E("SetInControl", UnwrapOr(data, ""), FALSE)
      [] type_string = "add_aircraft" ->
            E("AddAircraft", UnwrapOr(data, ""), FALSE)
      [] type_string = "version" -> E("Version", UnwrapOr(data, ""), FALSE)
      [] type_string = "update_failed" -> E("UpdateFailed", "", FALSE)
      [] type_string = "config_msg" ->
            E("SendConfig", UnwrapOr(data, "{}"), FALSE)
      [] type_string = "metrics" -> MetricsEvent(data)

\* a slip: the catch-all arm reports the unknown type instead of returning
NativeEvent_unknownAsError(type_string, data) ==
    IF type_string \in KnownTags
    THEN KnownEvent(type_string, data)
    ELSE Some(UiEvent("Error", UnwrapOr(data, "Unknown error"), FALSE, NoMetrics))

\* a slip: the match has no arm for the two type strings that clear an
\* observer flag
NativeEvent_noStopArms(type_string, data) ==
    IF type_string \in KnownTags \ {"stop_observing", "set_not_observing"}
    THEN KnownEvent(type_string, data)
    ELSE None

\* the whole match: the event to send, or None where invoke returns early
NativeEvent(type_string, data) ==
    IF type_string \in KnownTags
    THEN KnownEvent(type_string, data)
    ELSE None

\* a slip: the result of send is unwrapped
SendResult_unwrap(receiverAlive) ==
    IF receiverAlive THEN "returned" ELSE "panicked"

\* self.event_tx.send(event).ok(): the Err of a send to a dropped Receiver is
\* discarded, and invoke returns
SendResult(receiverAlive) == "returned"

-----------------------------------------------------------------------------
(* WebViewBackend (webview.rs).                                            *)

\* get_message_str: the call expression MessageReceived({type, data})
get_message_str(type_string, data) ==
    [fn |-> "MessageReceived",
     arg |-> [type |-> type_string, data |-> data]]

\* a slip: a call without data sends the text null
DispatchClosure_null(type_string, data) ==
    [type_string |-> type_string, data |-> UnwrapOr(data, "null")]

\* the closure invoke dispatches: data.unwrap_or_default()
DispatchClosure(type_string, data) ==
    [type_string |-> type_string, data |-> UnwrapOr(data, "")]

\* serde_json::from_str::<AppMessage>(arg) of the invoke_handler, over the
\* strings the page's script sends in the model: Some(message), or None for
\* an Err
DecodeAppMessage(arg) ==
    CASE arg = "{\"type\":\"disconnect\"}" -> Some([type |-> "Disconnect"])
      [] arg = "{\"type\":\"startup\"}" -> Some([type |-> "Startup"])
      [] arg = "{\"type\":\"goObserver\"}" -> Some([type |-> "GoObserver"])
      [] arg = "{\"type\":\"transferControl\",\"target\":\"Bob\"}" ->
            Some([type |-> "TransferControl", target |-> "Bob"])
      [] OTHER -> None

\* what the page's script passes to the bridge in the model: well-formed
\* messages, a string that is no JSON, an unknown tag, a tag in the wrong case
BridgeArgs ==
    {"{\"type\":\"disconnect\"}", "{\"type\":\"startup\"}",
     "not json", "{\"type\":\"bogus\"}", "{\"type\":\"Disconnect\"}"}

-----------------------------------------------------------------------------
(* crossbeam_channel::Receiver::try_recv, behind get_next_message.         *)

\* a slip: the disconnection is tested before the queue
TryRecv_disconnectFirst(queue, senderAlive) ==
    IF ~senderAlive THEN [r |-> "Disconnected", msg |-> None]
    ELSE IF queue # <<>> THEN [r |-> "Ok", msg |-> Some(Head(queue))]
    ELSE [r |-> "Empty", msg |-> None]

\* a slip: disconnection is read off the exit flag, the wrong way round
TryRecv_byExitFlag(queue, senderAlive) ==
    IF queue # <<>> THEN [r |-> "Ok", msg |-> Some(Head(queue))]
    ELSE IF ~senderAlive /\ ~exited THEN [r |-> "Disconnected", msg |-> None]
    ELSE [r |-> "Empty", msg |-> None]

\* the oldest message if one is queued; else Disconnected if every Sender is
\* dropped; else Empty
TryRecv(queue, senderAlive) ==
    IF queue # <<>> THEN [r |-> "Ok", msg |-> Some(Head(queue))]
    ELSE IF ~senderAlive THEN [r |-> "Disconnected", msg |-> None]
    ELSE [r |-> "Empty", msg |-> None]

-----------------------------------------------------------------------------
(* YourControlsApp (egui_backend.rs): the render state and its reducer.    *)

ClientInfo(name) == [name |-> name, has_control |-> FALSE, is_observer |-> FALSE]

\* YourControlsApp::new, without the channels and the event queue; a
\* status_message is the pieces format! joins
NewApp ==
    [username |-> "", session_code |-> "", port |-> "7777", ip_input |-> "",
     is_connected |-> FALSE, status_message |-> <<"Not connected">>,
     server_connection_method |-> "CloudServer",
     client_connection_method |-> "CloudServer",
     is_ipv6 |-> FALSE, clients |-> <<>>,
     selected_aircraft |-> 0,
     aircraft_list |-> <<"Select an aircraft...">>,
     connection_timeout |-> "30", dark_theme |-> FALSE,
     download_bandwidth |-> 0, upload_bandwidth |-> 0,
     packet_loss |-> 0, ping |-> 0]

\* u64::to_string and str::parse::<u16> over the numbers of the model
U64ToString(n) ==
    CASE n = 7777 -> "7777" [] n = 8080 -> "8080" [] n = 30 -> "30"
      [] n = 60 -> "60" [] n = 70000 -> "70000"
ParseU16(s) ==
    CASE s = "7777" -> Some(7777) [] s = "8080" -> Some(8080)
      [] s = "30" -> Some(30) [] s = "60" -> Some(60)
      [] OTHER -> None

\* str::parse::<IpAddr> over the inputs of the model
ParseIp(s) == IF s = "127.0.0.1" THEN Some("127.0.0.1") ELSE None

\* a slip: only the first entry of that name is removed
RECURSIVE RetainOthers_first(_, _)
RetainOthers_first(clients, name) ==
    IF clients = <<>> THEN <<>>
    ELSE IF Head(clients).name # name
         THEN <<Head(clients)>> \o RetainOthers_first(Tail(clients), name)
         ELSE Tail(clients)

\* Vec::retain(|c| c.name != name)
RECURSIVE RetainOthers(_, _)
RetainOthers(clients, name) ==
    IF clients = <<>> THEN <<>>
    ELSE IF Head(clients).name # name
         THEN <<Head(clients)>> \o RetainOthers(Tail(clients), name)
         ELSE RetainOthers(Tail(clients), name)

\* a slip: the last entry of that name is taken, not the first
FindClient_last(clients, name) ==
    IF \E i \in 1..Len(clients) : clients[i].name = name
    THEN CHOOSE i \in 1..Len(clients) :
            /\ clients[i].name = name
            /\ \A j \in (i + 1)..Len(clients) : clients[j].name # name
    ELSE 0

\* iter_mut().find(|c| c.name == name): the index of the first match, or 0
FindClient(clients, name) ==
    IF \E i \in 1..Len(clients) : clients[i].name = name
    THEN CHOOSE i \in 1..Len(clients) :
            /\ clients[i].name = name
            /\ \A j \in 1..(i - 1) : clients[j].name # name
    ELSE 0

\* a slip: the loop that clears the flags is missing
ClearControl_none(clients) == clients

\* for client in &mut self.clients { client.has_control = false }
RECURSIVE ClearControl(_)
ClearControl(clients) ==
    IF clients = <<>> THEN <<>>
    ELSE <<[Head(clients) EXCEPT !.has_control = FALSE]>>
         \o ClearControl(Tail(clients))

\* a slip: the placeholder is never cleared
AddAircraft_append(aircraft_list, name) == Append(aircraft_list, name)

\* the AddAircraft arm: the list that is still the one placeholder entry is
\* cleared first, then the name is pushed
AddAircraft(aircraft_list, name) ==
    IF Len(aircraft_list) = 1 /\ aircraft_list[1] = "Select an aircraft..."
    THEN Append(<<>>, name)
    ELSE Append(aircraft_list, name)

\* a slip: a key that is absent or mistyped gives the field its default
ApplyConfig_defaults(a, config_json) ==
    IF ParseJson(config_json) = None THEN a
    ELSE LET config == ParseJson(config_json)[1]
             name == Member(config, "name")
             port == AsU64(Member(config, "port"))
             timeout == AsU64(Member(config, "conn_timeout"))
             dark == Member(config, "ui_dark_theme")
         IN [a EXCEPT
               !.username = IF name.t = "str" THEN name.s ELSE "",
               !.port = IF IsSome(port) THEN U64ToString(port[1]) ELSE "7777",
               !.connection_timeout =
                   IF IsSome(timeout) THEN U64ToString(timeout[1]) ELSE "30",
               !.dark_theme = IF dark.t = "bool" THEN dark.b ELSE FALSE]

\* the SendConfig arm
ApplyConfig(a, config_json) ==
    IF ParseJson(config_json) = None THEN a
    ELSE LET config == ParseJson(config_json)[1]
             name == Member(config, "name")
             port == AsU64(Member(config, "port"))
             timeout == AsU64(Member(config, "conn_timeout"))
             dark == Member(config, "ui_dark_theme")
         IN [a EXCEPT
               !.username = IF name.t = "str" THEN name.s ELSE @,
               !.port = IF IsSome(port) THEN U64ToString(port[1]) ELSE @,
               !.connection_timeout =
                   IF IsSome(timeout) THEN U64ToString(timeout[1]) ELSE @,
               !.dark_theme = IF dark.t = "bool" THEN dark.b ELSE @]

\* a slip: the ServerStarted arm sets the status text only
ServerStartedArm_statusOnly(a) ==
    [a EXCEPT !.status_message = <<"Server started">>]

\* the ServerStarted arm
ServerStartedArm(a) ==
    [a EXCEPT !.status_message = <<"Server started">>,
              !.is_connected = TRUE]

\* a slip: the ClientFail arm does not clear the roster
ClientFailArm_keepsRoster(a, reason) ==
    [a EXCEPT !.status_message = <<"Client failed: ", reason>>,
              !.is_connected = FALSE]

\* the ClientFail arm
ClientFailArm(a, reason) ==
    [a EXCEPT !.status_message = <<"Client failed: ", reason>>,
              !.is_connected = FALSE,
              !.clients = <<>>]

\* YourControlsApp::handle_event
handle_event(a, event) ==
    CASE event.kind = "Error" ->
            [a EXCEPT !.status_message = <<"Error: ", event.s>>,
                      !.is_connected = FALSE]
      [] event.kind = "Attempt" ->
            [a EXCEPT !.status_message = <<"Attempting connection...">>]
      [] event.kind = "Connected" ->
            [a EXCEPT !.status_message = <<"Connected to server">>,
                      !.is_connected = TRUE]
      [] event.kind = "ServerFail" ->
            [a EXCEPT !.status_message = <<"Server failed: ", event.s>>,
                      !.is_connected = FALSE]
      [] event.kind = "ClientFail" -> ClientFailArm(a, event.s)
      [] event.kind = "GainControl" ->
            [a EXCEPT !.status_message = <<"You have control">>]
      [] event.kind = "LoseControl" ->
            [a EXCEPT !.status_message = <<"You lost control">>]
      [] event.kind = "ServerStarted" -> ServerStartedArm(a)
      [] event.kind = "SessionCode" ->
            [a EXCEPT !.status_message = <<"Session Code: ", event.s>>]
      [] event.kind = "SetHost" ->
            [a EXCEPT !.status_message = <<"You are now hosting">>]
      [] event.kind = "NewConnection" ->
            [a EXCEPT !.clients = Append(@, ClientInfo(event.s))]
      [] event.kind = "LostConnection" ->
            [a EXCEPT !.clients = RetainOthers(@, event.s)]
      [] event.kind = "Observing" -> a
      [] event.kind = "SetObserving" ->
            LET i == FindClient(a.clients, event.s) IN
            IF i = 0 THEN a
            ELSE [a EXCEPT !.clients[i].is_observer = event.b]
      [] event.kind = "SetInControl" ->
            LET cleared == ClearControl(a.clients)
                i == FindClient(cleared, event.s)
            IN IF i = 0 THEN [a EXCEPT !.clients = cleared]
               ELSE [a EXCEPT !.clients =
                               [cleared EXCEPT ![i].has_control = TRUE]]
      [] event.kind = "AddAircraft" ->
            [a EXCEPT !.aircraft_list = AddAircraft(@, event.s)]
      [] event.kind = "Version" ->
            [a EXCEPT !.status_message = <<"Update available: ", event.s>>]
      [] event.kind = "UpdateFailed" ->
            [a EXCEPT !.status_message = <<"Update download failed">>]
      [] event.kind = "SendConfig" -> ApplyConfig(a, event.s)
      [] event.kind = "SendMetrics" ->
            [a EXCEPT !.download_bandwidth = event.m.receive_kbps,
                      !.upload_bandwidth = event.m.sent_kbps,
                      !.packet_loss = event.m.packet_loss,
                      !.ping = event.m.ping]

\* the host button of update: the message a click sends
HostClickMessage(a) ==
    IF a.is_connected THEN [type |-> "Disconnect"]
    ELSE [type |-> "StartServer", username |-> a.username,
          port |-> UnwrapOr(ParseU16(a.port), 7777), is_ipv6 |-> a.is_ipv6,
          use_upnp |-> TRUE, method |-> a.server_connection_method]

\* the join button of update: the message a click sends
\* a slip: the session code is sent with every method
JoinClickMessage_codeAlways(a) ==
    IF a.is_connected THEN [type |-> "Disconnect"]
    ELSE LET direct == a.client_connection_method = "Direct" IN
         [type |-> "Connect", username |-> a.username,
          session_id |-> Some(a.session_code),
          isipv6 |-> a.is_ipv6,
          ip |-> IF direct THEN ParseIp(a.ip_input) ELSE None,
          hostname |-> None,
          port |-> IF direct THEN ParseU16(a.port) ELSE None,
          method |-> a.client_connection_method]

JoinClickMessage(a) ==
    IF a.is_connected THEN [type |-> "Disconnect"]
    ELSE LET direct == a.client_connection_method = "Direct" IN
         [type |-> "Connect", username |-> a.username,
          session_id |-> IF direct THEN None ELSE Some(a.session_code),
          isipv6 |-> a.is_ipv6,
          ip |-> IF direct THEN ParseIp(a.ip_input) ELSE None,
          hostname |-> None,
          port |-> IF direct THEN ParseU16(a.port) ELSE None,
          method |-> a.client_connection_method]

\* a slip: the drained event is not kept
DrainPush_drop(queue, e) == queue

\* a slip: the drained event goes to the front of the local queue
DrainPush_front(queue, e) == <<e>> \o queue

\* process_events, first loop: event_queue.push_back(event)
DrainPush(queue, e) == Append(queue, e)

-----------------------------------------------------------------------------
(* The state after setup() has returned: the channels exist, the UI thread *)
(* is spawned and has not run yet.  The recording backend of the tests     *)
(* ("mock") spawns no thread and drops its Sender inside setup.            *)

\* no drain is in progress
NoTick == [began |-> None, ended |-> None]

\* handle_event has handled nothing yet
NoneHandled == [n |-> 0, call |-> None, ev |-> None]

NoInvoke ==
    [called |-> FALSE, gone |-> FALSE, outcome |-> "none", queued |-> FALSE,
     known |-> FALSE]

InitOf(b) ==
    /\ backend = b
    /\ uiPc = "spawned"
    /\ appPc = "running"
    /\ exited = FALSE
    /\ exitedWrites = 0
    /\ lastExited = FALSE
    /\ txAlive = (b # "mock")
    /\ inbound = <<>>
    /\ sent = <<>>
    /\ received = <<>>
    /\ lastPoll = "None"
    /\ discPolls = 0
    /\ lastArg = None
    /\ event_rx_alive = (b = "egui")
    /\ event_ch = <<>>
    /\ event_queue = <<>>
    /\ app = NewApp
    /\ applied = <<>>
    /\ calls = <<>>
    /\ wcalls = <<>>
    /\ lastInvoke = NoInvoke
    /\ app_handle = None
    /\ clicks = <<>>
    /\ mutex = "none"
    /\ webLive = FALSE
    /\ dispatchQ = <<>>
    /\ evals = <<>>
    /\ pending = None
    /\ lost = {}
    /\ tick = NoTick
    /\ handled = NoneHandled
    /\ wire = <<>>
    /\ decoded = <<>>

Init == \E b \in {"egui", "webview"} : InitOf(b)

exitVars == <<exited, exitedWrites, lastExited>>
inVars == <<txAlive, inbound, sent, received, lastPoll, discPolls>>
eguiVars == <<event_rx_alive, event_ch, event_queue, app, applied>>
webVars == <<app_handle, mutex, webLive, dispatchQ, evals, pending, lastArg>>
callVars == <<calls, wcalls, lastInvoke>>
histVars == <<lost, tick, handled, clicks>>
codecVars == <<wire, decoded>>

-----------------------------------------------------------------------------
(* The UI thread of the egui backend (EguiBackend::setup's closure).       *)

\* a slip: the app is built without sending Startup
EguiNew_silent ==
    /\ backend = "egui" /\ uiPc = "spawned"
    /\ uiPc' = "frame"
    /\ UNCHANGED <<backend, codecVars, histVars, appPc, exitVars, inVars,
                   eguiVars, webVars, callVars>>

\* a slip: the exit flag is stored before the window runs
EguiNew_storesExited ==
    /\ backend = "egui" /\ uiPc = "spawned"
    /\ inbound' = Append(inbound, [type |-> "Startup"])
    /\ sent' = Append(sent, [type |-> "Startup"])
    /\ exited' = TRUE
    /\ exitedWrites' = exitedWrites + 1
    /\ uiPc' = "frame"
    /\ UNCHANGED <<backend, codecVars, histVars, appPc, lastExited, txAlive, received, lastPoll,
                   discPolls, eguiVars, webVars, callVars>>

\* YourControlsApp::new: sends Startup, builds the state
EguiNew ==
    /\ backend = "egui" /\ uiPc = "spawned"
    /\ inbound' = Append(inbound, [type |-> "Startup"])
    /\ sent' = Append(sent, [type |-> "Startup"])
    /\ uiPc' = "frame"
    /\ UNCHANGED <<backend, codecVars, histVars, appPc, exitVars, txAlive, received, lastPoll, discPolls,
                   eguiVars, webVars, callVars>>

\* a slip: a clone of action_tx outlives the app (kept by the thread)
EguiRunNativeReturns_keepsSender ==
    /\ backend = "egui" /\ uiPc = "frame"
    /\ event_rx_alive' = FALSE
    /\ event_ch' = <<>>
    /\ uiPc' = "returned"
    /\ UNCHANGED <<backend, codecVars, histVars, appPc, exitVars, inVars, event_queue, app,
                   applied, webVars, callVars>>

\* eframe::run_native returns, Ok (window closed) or Err (logged): the app
\* it owned is dropped, and with it action_tx and event_rx
EguiRunNativeReturns ==
    /\ backend = "egui" /\ uiPc = "frame"
    /\ \E result \in {"Ok", "Err"} :
          /\ txAlive' = FALSE
          /\ event_rx_alive' = FALSE
          /\ event_ch' = <<>>
          /\ uiPc' = "returned"
    /\ UNCHANGED <<backend, codecVars, histVars, appPc, exitVars, inbound, sent, received,
                   lastPoll, discPolls, event_queue, app, applied, webVars, callVars>>

\* update is called for a frame: process_events starts
EguiUpdate ==
    /\ backend = "egui" /\ uiPc = "frame"
    /\ uiPc' = "drain"
    /\ tick' = NoTick
    /\ UNCHANGED <<backend, codecVars, clicks, lost, handled, appPc, exitVars, inVars, eguiVars, webVars,
                   callVars>>

\* a slip: the first loop takes only the events that were queued when it
\* began, and leaves a later one in the channel
EguiDrain_snapshot ==
    /\ backend = "egui" /\ uiPc = "drain"
    /\ LET began == UnwrapOr(tick.began, Len(calls)) IN
       IF event_ch # <<>> /\ Head(event_ch).id <= began
       THEN /\ event_queue' = Append(event_queue, Head(event_ch))
            /\ event_ch' = Tail(event_ch)
            /\ uiPc' = "drain"
            /\ tick' = [tick EXCEPT !.began = Some(began)]
       ELSE /\ uiPc' = "handle"
            /\ tick' = [began |-> Some(began), ended |-> Some(Len(calls))]
            /\ UNCHANGED <<event_queue, event_ch>>
    /\ UNCHANGED <<backend, codecVars, clicks, lost, handled, appPc, exitVars, inVars,
                   event_rx_alive, app, applied, webVars, callVars>>

\* process_events, first loop: one try_recv, until it finds the channel empty
EguiDrain ==
    /\ backend = "egui" /\ uiPc = "drain"
    /\ IF event_ch # <<>>
       THEN /\ event_queue' = DrainPush(event_queue, Head(event_ch))
            /\ event_ch' = Tail(event_ch)
            /\ uiPc' = "drain"
            /\ tick' = [tick EXCEPT
                          !.began = Some(UnwrapOr(tick.began, Len(calls)))]
       ELSE /\ uiPc' = "handle"
            /\ tick' = [began |-> Some(UnwrapOr(tick.began, Len(calls))),
                        ended |-> Some(Len(calls))]
            /\ UNCHANGED <<event_queue, event_ch>>
    /\ UNCHANGED <<backend, codecVars, clicks, lost, handled, appPc, exitVars, inVars, event_rx_alive, app,
                   applied, webVars, callVars>>

\* a slip: the second loop is an if, so one event is handled in a tick
EguiHandle_once ==
    /\ backend = "egui" /\ uiPc = "handle"
    /\ IF event_queue # <<>>
       THEN /\ app' = handle_event(app, Head(event_queue).ev)
            /\ applied' = Append(applied, Head(event_queue).id)
            /\ handled' = [n |-> Len(applied) + 1,
                           call |-> Some(calls[Head(event_queue).id]),
                           ev |-> Some(Head(event_queue).ev)]
            /\ event_queue' = Tail(event_queue)
       ELSE UNCHANGED <<app, applied, handled, event_queue>>
    /\ uiPc' = "render"
    /\ UNCHANGED <<backend, codecVars, clicks, lost, tick, appPc, exitVars, inVars,
                   event_rx_alive, event_ch, webVars, callVars>>

\* process_events, second loop: one pop_front and handle_event, until the
\* local queue is empty
EguiHandle ==
    /\ backend = "egui" /\ uiPc = "handle"
    /\ IF event_queue # <<>>
       THEN /\ app' = handle_event(app, Head(event_queue).ev)
            /\ applied' = Append(applied, Head(event_queue).id)
            /\ handled' = [n |-> Len(applied) + 1,
                           call |-> Some(calls[Head(event_queue).id]),
                           ev |-> Some(Head(event_queue).ev)]
            /\ event_queue' = Tail(event_queue)
            /\ uiPc' = "handle"
       ELSE /\ uiPc' = "render"
            /\ UNCHANGED <<app, applied, handled, event_queue>>
    /\ UNCHANGED <<backend, codecVars, clicks, lost, tick, appPc, exitVars, inVars, event_rx_alive, event_ch,
                   webVars, callVars>>

\* the rest of update: the panels are drawn; a click on the host or the join
\* button sends its message
EguiRender ==
    /\ backend = "egui" /\ uiPc = "render"
    /\ \E click \in {"none", "host", "join"} :
          /\ clicks' = IF click = "none" THEN clicks
                       ELSE Append(clicks, click)
          /\ IF click = "none"
             THEN UNCHANGED <<inbound, sent>>
             ELSE /\ Len(sent) <= MaxUserActions
                  /\ LET msg == IF click = "host" THEN HostClickMessage(app)
                                ELSE JoinClickMessage(app)
                     IN /\ inbound' = Append(inbound, msg)
                        /\ sent' = Append(sent, msg)
    /\ uiPc' = "frame"
    /\ tick' = NoTick
    /\ UNCHANGED <<backend, codecVars, lost, handled, appPc, exitVars, txAlive, received, lastPoll, discPolls,
                   eguiVars, webVars, callVars>>

\* exited_clone.store(true, SeqCst), the last statement of either thread
StoreExited ==
    /\ uiPc = "returned"
    /\ exited' = TRUE
    /\ exitedWrites' = exitedWrites + 1
    /\ uiPc' = "done"
    /\ UNCHANGED <<backend, codecVars, histVars, appPc, lastExited, inVars, eguiVars, webVars,
                   callVars>>

-----------------------------------------------------------------------------
(* The UI thread of the WebView backend (WebViewBackend::setup's closure). *)

\* web_view::builder()...build().unwrap(): the WebView, or a panic that
\* unwinds the thread and drops the handler that owns tx
WebBuild ==
    /\ backend = "webview" /\ uiPc = "spawned"
    /\ \E ok \in BOOLEAN :
          IF ok
          THEN /\ webLive' = TRUE
               /\ uiPc' = "built"
               /\ UNCHANGED txAlive
          ELSE /\ txAlive' = FALSE
               /\ uiPc' = "panicked"
               /\ UNCHANGED webLive
    /\ UNCHANGED <<backend, codecVars, histVars, appPc, exitVars, inbound, sent, received,
                   lastPoll, discPolls, eguiVars, app_handle, mutex, dispatchQ, evals,
                   pending, lastArg, callVars>>

\* handle_clone.lock().unwrap()
WebLock ==
    /\ backend = "webview" /\ uiPc = "built"
    /\ mutex = "none"
    /\ mutex' = "ui"
    /\ uiPc' = "locked"
    /\ UNCHANGED <<backend, codecVars, histVars, appPc, exitVars, inVars, eguiVars, app_handle,
                   webLive, dispatchQ, evals, pending, lastArg, callVars>>

\* a slip: the guard is not dropped, so it lives until the closure ends
WebStoreHandle_keepsGuard ==
    /\ backend = "webview" /\ uiPc = "locked"
    /\ app_handle' = Some("handle")
    /\ uiPc' = "running"
    /\ UNCHANGED <<backend, codecVars, histVars, appPc, exitVars, inVars,
                   eguiVars, mutex, webLive, dispatchQ, evals, pending,
                   lastArg, callVars>>

\* *handle = Some(webview.handle()); drop(handle)
WebStoreHandle ==
    /\ backend = "webview" /\ uiPc = "locked"
    /\ app_handle' = Some("handle")
    /\ mutex' = "none"
    /\ uiPc' = "running"
    /\ UNCHANGED <<backend, codecVars, histVars, appPc, exitVars, inVars, eguiVars, webLive,
                   dispatchQ, evals, pending, lastArg, callVars>>

\* webview.run(): the page's script calls the bridge with a string.  The
\* handler decodes it and unwraps the result: a decoded message is sent; an
\* Err panics inside the handler the native library called, which either
\* unwinds the UI thread or aborts the process
WebBridge ==
    /\ backend = "webview" /\ uiPc = "running"
    /\ Len(sent) < MaxUserActions
    /\ \E arg \in BridgeArgs :
          /\ lastArg' = Some(arg)
          /\ IF IsSome(DecodeAppMessage(arg))
             THEN /\ inbound' = Append(inbound, DecodeAppMessage(arg)[1])
                  /\ sent' = Append(sent, DecodeAppMessage(arg)[1])
                  /\ UNCHANGED <<uiPc, appPc, txAlive, webLive, dispatchQ>>
             ELSE /\ UNCHANGED <<inbound, sent>>
                  /\ \E how \in {"unwind", "abort"} :
                        IF how = "unwind"
                        THEN /\ uiPc' = "panicked"
                             /\ txAlive' = FALSE
                             /\ webLive' = FALSE
                             /\ dispatchQ' = <<>>
                             /\ UNCHANGED appPc
                        ELSE /\ uiPc' = "aborted"
                             /\ appPc' = "aborted"
                             /\ UNCHANGED <<txAlive, webLive, dispatchQ>>
    /\ UNCHANGED <<backend, codecVars, histVars, exitVars, received, lastPoll, discPolls, eguiVars,
                   app_handle, mutex, evals, pending, callVars>>

\* webview.run(): a dispatched closure runs,
\* webview.eval(&get_message_str(&type_string, &data)).ok()
WebRunClosure ==
    /\ backend = "webview" /\ uiPc = "running"
    /\ dispatchQ # <<>>
    /\ evals' = Append(evals,
                       [id |-> Head(dispatchQ).id,
                        script |-> get_message_str(Head(dispatchQ).cl.type_string,
                                                   Head(dispatchQ).cl.data)])
    /\ dispatchQ' = Tail(dispatchQ)
    /\ UNCHANGED <<backend, codecVars, histVars, uiPc, appPc, exitVars, inVars, eguiVars,
                   app_handle, mutex, webLive, pending, lastArg, callVars>>

\* a slip: the UI thread empties the handle when the loop ends
WebRunReturns_clearsHandle ==
    /\ backend = "webview" /\ uiPc = "running"
    /\ webLive' = FALSE
    /\ txAlive' = FALSE
    /\ dispatchQ' = <<>>
    /\ app_handle' = None
    /\ uiPc' = "returned"
    /\ UNCHANGED <<backend, codecVars, histVars, appPc, exitVars, inbound,
                   sent, received, lastPoll, discPolls, eguiVars, mutex,
                   evals, pending, lastArg, callVars>>

\* webview.run().ok(): the loop ends, with Ok or Err; the WebView it consumed
\* is dropped, and with it the handler that owns tx
WebRunReturns ==
    /\ backend = "webview" /\ uiPc = "running"
    /\ webLive' = FALSE
    /\ txAlive' = FALSE
    /\ dispatchQ' = <<>>
    /\ uiPc' = "returned"
    /\ UNCHANGED <<backend, codecVars, histVars, appPc, exitVars, inbound, sent, received,
                   lastPoll, discPolls, eguiVars, app_handle, mutex, evals, pending,
                   lastArg, callVars>>

-----------------------------------------------------------------------------
(* The application thread: calls on the handle setup() returned.           *)

\* exited(): a load of the AtomicBool
AppExited ==
    /\ appPc = "running"
    /\ lastExited' = exited
    /\ UNCHANGED <<backend, codecVars, histVars, uiPc, appPc, exited, exitedWrites, inVars,
                   eguiVars, webVars, callVars>>

\* get_next_message(): self.rx.try_recv()
AppPoll ==
    /\ appPc = "running"
    /\ LET out == TryRecv(inbound, txAlive) IN
          /\ lastPoll' = out.r
          /\ discPolls' = IF out.r = "Disconnected" /\ discPolls < 2
                          THEN discPolls + 1 ELSE discPolls
          /\ IF out.r = "Ok"
             THEN /\ inbound' = Tail(inbound)
                  /\ received' = Append(received, out.msg[1])
             ELSE UNCHANGED <<inbound, received>>
    /\ UNCHANGED <<backend, codecVars, histVars, uiPc, appPc, exitVars, txAlive, sent, eguiVars,
                   webVars, callVars>>

\* the calls the application makes in the model: two convenience methods,
\* and invoke itself with a type string no arm names
BridgeCalls ==
    { WrapperInvoke(WCall("connected", None, FALSE, None)),
      WrapperInvoke(WCall("error", Some("X"), FALSE, None)),
      Inv("bogus", Some("X")) }

\* EguiBackend::invoke
EguiInvoke ==
    /\ backend = "egui" /\ appPc = "running"
    /\ Len(calls) < MaxInvokes
    /\ \E c \in BridgeCalls :
          LET event == NativeEvent(c.type_string, c.data)
              outcome == IF IsSome(event) THEN SendResult(event_rx_alive)
                         ELSE "returned"
              queued == IsSome(event) /\ event_rx_alive
          IN /\ calls' = Append(calls, c)
             /\ event_ch' =
                   IF queued
                   THEN Append(event_ch,
                               [id |-> Len(calls) + 1, ev |-> event[1]])
                   ELSE event_ch
             /\ appPc' = IF outcome = "panicked" THEN "panicked" ELSE "running"
             /\ lastInvoke' = [called |-> TRUE, gone |-> ~event_rx_alive,
                               outcome |-> outcome, queued |-> queued,
                               known |-> c.type_string \in KnownTags]
    /\ UNCHANGED <<backend, codecVars, histVars, uiPc, exitVars, inVars, event_rx_alive,
                   event_queue, app, applied, webVars, wcalls>>

\* WebViewBackend::invoke, to self.app_handle.lock().unwrap(): the lock is
\* taken when it is free (neither holder can panic, so it is never poisoned)
WebInvokeLock ==
    /\ backend = "webview" /\ appPc = "running"
    /\ Len(calls) < MaxInvokes
    /\ mutex = "none"
    /\ \E c \in BridgeCalls :
          /\ calls' = Append(calls, c)
          /\ pending' = Some(c)
    /\ mutex' = "app"
    /\ appPc' = "invoking"
    /\ UNCHANGED <<backend, codecVars, histVars, uiPc, exitVars, inVars, eguiVars, app_handle,
                   webLive, dispatchQ, evals, lastArg, wcalls, lastInvoke>>

\* a slip: the result of dispatch is unwrapped
DispatchResult_unwrap(live) == IF live THEN "returned" ELSE "panicked"

\* handle.dispatch(..).ok(): the Err of a dispatch to a WebView that is gone
\* is discarded
DispatchResult(live) == "returned"

\* a slip: a call that finds no handle leaves its closure for the WebView
\* that is being built
Dispatched_deferred(handle, live) == live

\* if handle.is_none() { return; } and dispatch: the closure is queued when
\* there is a handle and the WebView it names exists
Dispatched(handle, live) == IsSome(handle) /\ live

\* WebViewBackend::invoke, the rest: return if the handle is None, else
\* dispatch the closure; the guard is dropped on return
WebInvokeBody ==
    /\ backend = "webview" /\ appPc = "invoking"
    /\ LET c == pending[1]
           outcome == IF IsSome(app_handle) THEN DispatchResult(webLive)
                      ELSE "returned"
           queued == Dispatched(app_handle, webLive)
       IN /\ dispatchQ' =
                IF queued
                THEN Append(dispatchQ,
                            [id |-> Len(calls),
                             cl |-> DispatchClosure(c.type_string, c.data)])
                ELSE dispatchQ
          /\ lost' = IF IsSome(app_handle) THEN lost
                     ELSE lost \cup {Len(calls)}
          /\ appPc' = IF outcome = "panicked" THEN "panicked" ELSE "running"
          /\ lastInvoke' = [called |-> TRUE,
                            gone |-> ~IsSome(app_handle) \/ ~webLive,
                            outcome |-> outcome, queued |-> queued,
                            known |-> c.type_string \in KnownTags]
    /\ mutex' = "none"
    /\ pending' = None
    /\ UNCHANGED <<backend, codecVars, clicks, tick, handled, uiPc, exitVars, inVars, eguiVars, app_handle,
                   webLive, evals, lastArg, calls, wcalls>>

-----------------------------------------------------------------------------
(* The specification of the bridge: one backend instance, its UI thread    *)
(* and the application thread, interleaved.                                *)

Next ==
    \/ EguiNew \/ EguiRunNativeReturns \/ EguiUpdate \/ EguiDrain
    \/ EguiHandle \/ EguiRender
    \/ WebBuild \/ WebLock \/ WebStoreHandle \/ WebBridge \/ WebRunClosure
    \/ WebRunReturns
    \/ StoreExited
    \/ AppExited \/ AppPoll \/ EguiInvoke \/ WebInvokeLock \/ WebInvokeBody

Spec == Init /\ [][Next]_vars

\* the application keeps polling: get_next_message is called again and again
\* and a call of invoke it has begun returns
FairSpec == Spec /\ WF_vars(AppPoll) /\ WF_vars(WebInvokeBody)

\* the egui UI thread runs: it builds the app, and update is called again
\* and again (it requests a repaint in every frame) and runs to its end,
\* until run_native returns
TickSpec ==
    Spec /\ WF_vars(EguiNew) /\ WF_vars(EguiUpdate) /\ WF_vars(EguiDrain)
         /\ WF_vars(EguiHandle) /\ WF_vars(EguiRender)

-----------------------------------------------------------------------------
(* The recording backend of the trait's tests (mod.rs, MockBackend):       *)
(* invoke pushes (type_string, data) on a vector.                          *)

\* the convenience-method calls of the model
StrArgs == {"X", "Bob"}
WrapperCalls ==
    {WCall(w, None, FALSE, None) : w \in NoArgWrappers}
    \cup {WCall(w, Some(x), FALSE, None) : w \in StrArgWrappers, x \in StrArgs}
    \cup {WCall("observing", None, b, None) : b \in BOOLEAN}
    \cup {WCall("set_observing", Some(x), b, None) : x \in StrArgs, b \in BOOLEAN}
    \cup {WCall("send_network", None, FALSE, Some(m)) : m \in SampleMetrics}

\* a convenience method is called on the MockBackend
MockWrapper ==
    /\ backend = "mock" /\ appPc = "running"
    /\ Len(wcalls) < MaxWrapperCalls
    /\ \E c \in WrapperCalls :
          /\ wcalls' = Append(wcalls, c)
          /\ calls' = Append(calls, WrapperInvoke(c))
    /\ UNCHANGED <<backend, codecVars, histVars, uiPc, appPc, exitVars, inVars, eguiVars, webVars,
                   lastInvoke>>

MockInit == InitOf("mock")

MockNext == MockWrapper \/ AppPoll \/ AppExited

MockSpec == MockInit /\ [][MockNext]_vars

-----------------------------------------------------------------------------
(* The reducer of the egui backend on its own: the window is up, and each  *)
(* step is one invoke call together with the frame that drains and handles *)
(* its event, so that the render state is seen after every single event.   *)

\* the names of the peers and of the aircraft in the calls
PeerNames == {"Alice", "Bob"}
AircraftNames == {"A320", "B737"}

\* the texts given to invoke("metrics", ..): every key, one key, no key,
\* mistyped keys, a JSON value that is no object, a string that is no JSON
MetricsTexts ==
    {MetricsJsonText(m) : m \in SampleMetrics}
    \cup {"{}", "{\"sentBandwidth\":12.5}",
          "{\"sentPackets\":\"3\",\"ping\":true,\"packetLoss\":0.25}",
          "{\"sentPackets\":2.5,\"receivePackets\":-1,\"sentBandwidth\":7}",
          "[1]", "metrics"}

\* the calls the application makes in ReducerSpec
ReducerCalls ==
    {WrapperInvoke(WCall(w, Some(x), FALSE, None)) :
        w \in {"new_connection", "lost_connection"}, x \in PeerNames}
    \cup {WrapperInvoke(WCall("set_incontrol", Some(x), FALSE, None)) :
             x \in PeerNames \cup {"Carol"}}
    \cup {WrapperInvoke(WCall("set_observing", Some("Alice"), b, None)) :
             b \in BOOLEAN}
    \cup {WrapperInvoke(WCall("client_fail", Some("X"), FALSE, None))}
    \cup {WrapperInvoke(WCall("add_aircraft", Some(x), FALSE, None)) :
             x \in AircraftNames}
    \cup {Inv("metrics", Some(t)) : t \in MetricsTexts}
    \cup {Inv("metrics", None)}

\* EguiBackend::invoke, then update's process_events: the event of the call,
\* if it made one, is sent, drained and handled
ReducerDeliver ==
    /\ backend = "egui" /\ uiPc = "frame" /\ appPc = "running"
    /\ handled.n < MaxEvents
    /\ \E c \in ReducerCalls :
          LET event == NativeEvent(c.type_string, c.data) IN
             /\ handled' = [n |-> handled.n + 1, call |-> Some(c),
                            ev |-> event]
             /\ app' = IF IsSome(event) THEN handle_event(app, event[1])
                       ELSE app
    /\ UNCHANGED <<backend, codecVars, clicks, lost, tick, uiPc, appPc, exitVars,
                   inVars, event_rx_alive, event_ch, event_queue, applied,
                   webVars, callVars>>

ReducerInit == InitOf("egui")

ReducerNext == EguiNew \/ ReducerDeliver

ReducerSpec == ReducerInit /\ [][ReducerNext]_vars

-----------------------------------------------------------------------------
(* The reducer again, fed with the events of a session: failures,          *)
(* connection, the roster, and pushed configurations.                      *)

\* the texts given to send_config: every key, one key, mistyped keys beside
\* a well-typed one, a JSON value that is no object, a string that is no JSON
ConfigTexts ==
    {"{\"conn_timeout\":60,\"name\":\"Bob\",\"port\":8080,\"ui_dark_theme\":true}",
     "{\"port\":8080}",
     "{\"conn_timeout\":2.5,\"name\":5,\"port\":\"8080\",\"ui_dark_theme\":true}",
     "[1]", "not json"}

\* the calls the application makes in SessionSpec
SessionCalls ==
    {WrapperInvoke(WCall(w, None, FALSE, None)) :
        w \in {"connected", "server_started", "attempt", "gain_control"}}
    \cup {WrapperInvoke(WCall(w, Some("X"), FALSE, None)) :
             w \in {"error", "server_fail", "client_fail"}}
    \cup {WrapperInvoke(WCall(w, Some("Alice"), FALSE, None)) :
             w \in {"new_connection", "set_incontrol"}}
    \cup {WrapperInvoke(WCall("set_observing", Some("Alice"), TRUE, None))}
    \cup {WrapperInvoke(WCall("send_config", Some(t), FALSE, None)) :
             t \in ConfigTexts}
    \cup {Inv("config_msg", None)}

\* EguiBackend::invoke, then update's process_events, as ReducerDeliver
SessionDeliver ==
    /\ backend = "egui" /\ uiPc = "frame" /\ appPc = "running"
    /\ handled.n < MaxEvents
    /\ \E c \in SessionCalls :
          LET event == NativeEvent(c.type_string, c.data) IN
             /\ handled' = [n |-> handled.n + 1, call |-> Some(c),
                            ev |-> event]
             /\ app' = IF IsSome(event) THEN handle_event(app, event[1])
                       ELSE app
    /\ UNCHANGED <<backend, codecVars, clicks, lost, tick, uiPc, appPc, exitVars,
                   inVars, event_rx_alive, event_ch, event_queue, applied,
                   webVars, callVars>>

SessionNext == EguiNew \/ SessionDeliver

SessionSpec == ReducerInit /\ [][SessionNext]_vars

-----------------------------------------------------------------------------
(* The convenience methods on the egui backend: each step is one method    *)
(* call, the invoke call it makes, and the frame that handles its event.   *)

\* a convenience method is called on the EguiBackend while its window is up
WrapperDeliver ==
    /\ backend = "egui" /\ uiPc = "frame" /\ appPc = "running"
    /\ event_rx_alive
    /\ Len(wcalls) < MaxWrapperCalls
    /\ \E w \in WrapperCalls :
          LET c == WrapperInvoke(w)
              event == NativeEvent(c.type_string, c.data)
          IN /\ wcalls' = Append(wcalls, w)
             /\ handled' = [n |-> IF IsSome(event) THEN handled.n + 1
                                  ELSE handled.n,
                            call |-> Some(c), ev |-> event]
             /\ app' = IF IsSome(event) THEN handle_event(app, event[1])
                       ELSE app
    /\ UNCHANGED <<backend, codecVars, clicks, lost, tick, uiPc, appPc, exitVars,
                   inVars, event_rx_alive, event_ch, event_queue, applied,
                   webVars, calls, lastInvoke>>

WrapperNext == EguiNew \/ WrapperDeliver

WrapperSpec == ReducerInit /\ [][WrapperNext]_vars

-----------------------------------------------------------------------------
(* The aircraft list of the egui window: add_aircraft calls, each with the *)
(* frame that handles its event, and frames in which the user clicks an    *)
(* entry of the combo box.                                                 *)

\* the text the combo box shows: aircraft_list[selected_aircraft], a
\* 0-based index into a Vec
SelectedText(a) == a.aircraft_list[a.selected_aircraft + 1]

\* a slip: the entries are numbered from one
ComboEntries_fromOne(aircraft_list) ==
    {<<k, aircraft_list[k]>> : k \in DOMAIN aircraft_list}

\* aircraft_list.iter().enumerate(): the pairs (i, aircraft), i from zero
ComboEntries(aircraft_list) ==
    {<<k - 1, aircraft_list[k]>> : k \in DOMAIN aircraft_list}

AircraftCalls ==
    {WrapperInvoke(WCall("add_aircraft", Some(x), FALSE, None)) :
        x \in AircraftNames \cup {"Select an aircraft..."}}

\* EguiBackend::invoke, then update's process_events, as ReducerDeliver
AircraftDeliver ==
    /\ backend = "egui" /\ uiPc = "frame" /\ appPc = "running"
    /\ handled.n < MaxEvents
    /\ \E c \in AircraftCalls :
          LET event == NativeEvent(c.type_string, c.data) IN
             /\ handled' = [n |-> handled.n + 1, call |-> Some(c),
                            ev |-> event]
             /\ app' = IF IsSome(event) THEN handle_event(app, event[1])
                       ELSE app
    /\ UNCHANGED <<backend, codecVars, clicks, lost, tick, uiPc, appPc, exitVars,
                   inVars, event_rx_alive, event_ch, event_queue, applied,
                   webVars, callVars>>

\* a frame of update in which the user clicks entry i of the combo box:
\* selectable_value stores i, and LoadAircraft is sent with the entry's name
UserSelectAircraft ==
    /\ backend = "egui" /\ uiPc = "frame" /\ appPc = "running"
    /\ Len(sent) <= MaxSelections
    /\ \E e \in ComboEntries(app.aircraft_list) :
          LET msg == [type |-> "LoadAircraft", config_file_name |-> e[2]]
          IN /\ app' = [app EXCEPT !.selected_aircraft = e[1]]
             /\ inbound' = Append(inbound, msg)
             /\ sent' = Append(sent, msg)
    /\ UNCHANGED <<backend, codecVars, histVars, uiPc, appPc, exitVars,
                   txAlive, received, lastPoll, discPolls, event_rx_alive,
                   event_ch, event_queue, applied, webVars, callVars>>

AircraftNext == EguiNew \/ AircraftDeliver \/ UserSelectAircraft

AircraftSpec == ReducerInit /\ [][AircraftNext]_vars

-----------------------------------------------------------------------------
(* The host and join forms of the egui window: frames in which the user    *)
(* edits a field, frames in which the user clicks a button, and the calls  *)
(* that change the connected flag, each with the frame that handles its    *)
(* event.                                                                  *)

\* what the user types in the port field: a port, and a number too large
\* for a u16
PortInputs == {"8080", "70000"}
\* what the user types in the IP address field
IpInputs == {"127.0.0.1"}
\* what the user types in the session code field
CodeInputs == {"ABC"}
\* the radio buttons of the host form
ServerMethods == {"CloudServer", "Relay", "Direct"}
\* the radio buttons of the join form
ClientMethods == {"CloudServer", "Direct"}

FormCalls ==
    {WrapperInvoke(WCall("connected", None, FALSE, None)),
     WrapperInvoke(WCall("error", Some("X"), FALSE, None))}

\* EguiBackend::invoke, then update's process_events, as ReducerDeliver
FormDeliver ==
    /\ backend = "egui" /\ uiPc = "frame" /\ appPc = "running"
    /\ handled.n < MaxEvents
    /\ \E c \in FormCalls :
          LET event == NativeEvent(c.type_string, c.data) IN
             /\ handled' = [n |-> handled.n + 1, call |-> Some(c),
                            ev |-> event]
             /\ app' = IF IsSome(event) THEN handle_event(app, event[1])
                       ELSE app
    /\ UNCHANGED <<backend, codecVars, clicks, lost, tick, uiPc, appPc, exitVars,
                   inVars, event_rx_alive, event_ch, event_queue, applied,
                   webVars, callVars>>

\* a frame of update in which the user changes one field of the forms; the
\* join form shows the IP address with Direct and the session code otherwise
UserEdit ==
    /\ backend = "egui" /\ uiPc = "frame" /\ appPc = "running"
    /\ \/ \E p \in PortInputs : app' = [app EXCEPT !.port = p]
       \/ \E m \in ServerMethods :
             app' = [app EXCEPT !.server_connection_method = m]
       \/ \E m \in ClientMethods :
             app' = [app EXCEPT !.client_connection_method = m]
       \/ /\ app.client_connection_method = "Direct"
          /\ \E t \in IpInputs : app' = [app EXCEPT !.ip_input = t]
       \/ /\ app.client_connection_method # "Direct"
          /\ \E t \in CodeInputs : app' = [app EXCEPT !.session_code = t]
    /\ UNCHANGED <<backend, codecVars, histVars, uiPc, appPc, exitVars,
                   inVars, event_rx_alive, event_ch, event_queue, applied,
                   webVars, callVars>>

\* a frame of update in which the user clicks the host or the join button
UserClick ==
    /\ backend = "egui" /\ uiPc = "frame" /\ appPc = "running"
    /\ Len(sent) <= MaxUserActions
    /\ \E click \in {"host", "join"} :
          LET msg == IF click = "host" THEN HostClickMessage(app)
                     ELSE JoinClickMessage(app)
          IN /\ clicks' = Append(clicks, click)
             /\ inbound' = Append(inbound, msg)
             /\ sent' = Append(sent, msg)
    /\ UNCHANGED <<backend, codecVars, lost, tick, handled, uiPc, appPc,
                   exitVars, txAlive, received, lastPoll, discPolls,
                   eguiVars, webVars, callVars>>

FormNext == EguiNew \/ FormDeliver \/ UserEdit \/ UserClick

FormSpec == ReducerInit /\ [][FormNext]_vars

-----------------------------------------------------------------------------
(* ConnectionMethod texts written and read back.  A text on the wire is    *)
(* [text, from]: from is the variant it was serialised from, None for a    *)
(* text that came from elsewhere.                                          *)

\* serde_json::to_string of a variant
CodecSerialize ==
    /\ Len(wire) + Len(decoded) < MaxTexts
    /\ \E v \in ConnectionMethods :
          wire' = Append(wire, [text |-> Serialize(v), from |-> Some(v)])
    /\ UNCHANGED <<backend, decoded, histVars, uiPc, appPc, exitVars, inVars,
                   eguiVars, webVars, callVars>>

\* a text that was not made by serialising a variant arrives
CodecForeign ==
    /\ Len(wire) + Len(decoded) < MaxTexts
    /\ \E t \in ForeignTexts :
          wire' = Append(wire, [text |-> t, from |-> None])
    /\ UNCHANGED <<backend, decoded, histVars, uiPc, appPc, exitVars, inVars,
                   eguiVars, webVars, callVars>>

\* serde_json::from_str::<ConnectionMethod> of the oldest text
CodecDeserialize ==
    /\ wire # <<>>
    /\ decoded' = Append(decoded, [text |-> Head(wire).text,
                                   from |-> Head(wire).from,
                                   value |-> Deserialize(Head(wire).text)])
    /\ wire' = Tail(wire)
    /\ UNCHANGED <<backend, histVars, uiPc, appPc, exitVars, inVars,
                   eguiVars, webVars, callVars>>

CodecInit == InitOf("mock")

CodecNext == CodecSerialize \/ CodecForeign \/ CodecDeserialize

CodecSpec == CodecInit /\ [][CodecNext]_vars

-----------------------------------------------------------------------------
(* Properties.                                                             *)

\* a step in which get_next_message returned something new
PollStep ==
    lastPoll' # lastPoll \/ received' # received \/ discPolls' # discPolls

\* C1: get_next_message has exactly three outcomes, decided by the queue
\* first and the sender second: with a message queued it returns the oldest
\* one and removes it; with none queued and the sender alive it returns
\* Empty; it returns Disconnected only with the sender dropped and the queue
\* empty.  The call is one step of the application thread and leaves it
\* running.
C1_PollOutcomes ==
    [][PollStep =>
        /\ appPc' = "running"
        /\ inbound # <<>> =>
              /\ lastPoll' = "Ok"
              /\ received' = Append(received, Head(inbound))
              /\ inbound' = Tail(inbound)
        /\ (inbound = <<>> /\ txAlive) =>
              /\ lastPoll' = "Empty"
              /\ UNCHANGED <<received, inbound>>
        /\ (inbound = <<>> /\ ~txAlive) =>
              /\ lastPoll' = "Disconnected"
              /\ UNCHANGED <<received, inbound>>
        /\ lastPoll' = "Disconnected" => (inbound = <<>> /\ ~txAlive)]_vars

\* C1 witness: the UI thread sent two messages and ended; both were returned
\* before a poll returned Disconnected
C1_Witness ==
    /\ lastPoll = "Disconnected"
    /\ Len(sent) >= 2
    /\ received = sent

\* C2: once a poll has returned Disconnected, every later poll returns
\* Disconnected, never a message and never Empty.
C2_DisconnectedTerminal ==
    [][(discPolls >= 1 /\ PollStep) =>
        (lastPoll' = "Disconnected" /\ received' = received)]_vars

\* C2 witness: a poll returned Disconnected and a later one did again
C2_Witness == discPolls = 2 /\ lastPoll = "Disconnected"

\* C3: once exited() has returned true, an application that keeps polling
\* receives Disconnected.
C3_DisconnectedAfterExit == lastExited ~> (lastPoll = "Disconnected")

\* C3 witness: exited() returned true with messages still queued, and polling
\* went through them to Disconnected
C3_Witness ==
    /\ lastExited
    /\ lastPoll = "Disconnected"
    /\ Len(received) >= 2

\* C4: the exit flag is false until the UI thread's loop has returned, is
\* stored only by the UI thread's last statement, is stored once, never goes
\* back to false, and exited() never returns false after it returned true.
C4_ExitFlagOneWay ==
    /\ ~exited /\ exitedWrites = 0
    /\ [][/\ exited => exited'
          /\ exited' <=> (exitedWrites' = 1)
          /\ exited' <=> (uiPc' = "done")
          /\ exitedWrites' \in {0, 1}
          /\ exitedWrites' # exitedWrites =>
                (uiPc = "returned" /\ uiPc' = "done" /\ appPc' = appPc)
          /\ lastExited => lastExited']_vars

\* C4 witness: the loop returned, the flag was stored, exited() returned true
C4_Witness == lastExited /\ exited /\ exitedWrites = 1 /\ uiPc = "done"

\* C5: on every way the UI thread ends the exit flag is set: a UI thread that
\* has terminated has stored it.
C5_ExitFlagOnEveryExit == uiPc \in {"done", "panicked"} => exited

\* C6: a string that does not decode is dropped by the bridge handler:
\* nothing is pushed on the inbound channel and the UI thread keeps running.
C6_MalformedDropped ==
    [][(lastArg' # lastArg /\ DecodeAppMessage(lastArg'[1]) = None) =>
        /\ uiPc' = "running"
        /\ txAlive'
        /\ UNCHANGED <<inbound, sent>>]_vars

\* the ids of queued outbound events
RECURSIVE Ids(_)
Ids(q) == IF q = <<>> THEN <<>> ELSE <<Head(q).id>> \o Ids(Tail(q))

\* the render state after handling, in order, the events of the calls ids
RECURSIVE Reduce(_, _)
Reduce(a, ids) ==
    IF ids = <<>> THEN a
    ELSE Reduce(handle_event(a, NativeEvent(calls[Head(ids)].type_string,
                                            calls[Head(ids)].data)[1]),
                Tail(ids))

\* C7: each channel delivers in submission order and at most once.  The
\* events handled, then those in the local queue, then those on the outbound
\* channel are invoke calls in call order, none twice, each the event of its
\* call, and the render state is the reducer applied to the handled ones in
\* that order; the messages returned by get_next_message followed by those
\* still queued are the messages the UI thread sent, in the order sent.
C7_OrderedAtMostOnce ==
    /\ sent = received \o inbound
    /\ LET line == applied \o Ids(event_queue) \o Ids(event_ch) IN
          /\ \A i \in 1..Len(line) : line[i] \in 1..Len(calls)
          /\ \A i, j \in 1..Len(line) : i < j => line[i] < line[j]
    /\ \A i \in 1..Len(event_queue) :
          Some(event_queue[i].ev) =
             NativeEvent(calls[event_queue[i].id].type_string,
                         calls[event_queue[i].id].data)
    /\ \A i \in 1..Len(event_ch) :
          Some(event_ch[i].ev) =
             NativeEvent(calls[event_ch[i].id].type_string,
                         calls[event_ch[i].id].data)
    /\ backend = "egui" => app = Reduce(NewApp, applied)

\* C7 witness: two events were handled and two messages returned
C7_Witness == Len(applied) >= 2 /\ Len(received) >= 2

\* the type string of each method that takes no flag
PlainTag ==
    [w \in NoArgWrappers \cup StrArgWrappers \cup {"send_network"} |->
        CASE w = "error" -> "error"
          [] w = "attempt" -> "attempt"
          [] w = "connected" -> "connected"
          [] w = "server_fail" -> "server_fail"
          [] w = "client_fail" -> "client_fail"
          [] w = "gain_control" -> "control"
          [] w = "lose_control" -> "lostcontrol"
          [] w = "server_started" -> "server"
          [] w = "set_session_code" -> "session"
          [] w = "set_host" -> "host"
          [] w = "new_connection" -> "newconnection"
          [] w = "lost_connection" -> "lostconnection"
          [] w = "set_incontrol" -> "set_incontrol"
          [] w = "add_aircraft" -> "add_aircraft"
          [] w = "version" -> "version"
          [] w = "update_failed" -> "update_failed"
          [] w = "send_config" -> "config_msg"
          [] w = "send_network" -> "metrics"]

\* the six members of a metrics text are the snapshot's, ping half the rtt
MetricsTextOf(text, m) ==
    /\ IsSome(ParseJson(text))
    /\ LET json == ParseJson(text)[1] IN
          /\ AsU64(Member(json, "sentPackets")) = Some(m.sent_packets)
          /\ AsU64(Member(json, "receivePackets")) = Some(m.received_packets)
          /\ AsF64(Member(json, "sentBandwidth")) = Some(m.sent_kbps)
          /\ AsF64(Member(json, "receiveBandwidth")) = Some(m.receive_kbps)
          /\ AsF64(Member(json, "packetLoss")) = Some(m.packet_loss)
          /\ AsF64(Member(json, "ping")) = Some(m.rtt \div 2)

\* C8 as stated: every method has one fixed type string, and passes data
\* exactly when it takes an argument.
C8_FixedTagArgumentAsData ==
    /\ Len(calls) = Len(wcalls)
    /\ \A i, j \in 1..Len(wcalls) :
          wcalls[i].w = wcalls[j].w =>
             calls[i].type_string = calls[j].type_string
    /\ \A i \in 1..Len(wcalls) :
          (calls[i].data = None) <=> (wcalls[i].w \in NoArgWrappers)

\* C8, amended: every convenience-method call makes exactly one invoke call,
\* in call order.  A method without a flag uses its one type string, with
\* its string argument as data, no data if it takes none, and the JSON text
\* of the snapshot for send_network.  observing(b) and set_observing(n, b)
\* use one of two type strings, chosen by b; b is not passed as data.
\* error("X") then connected() gives ("error", Some("X")), ("connected", None).
C8_OneInvokePerWrapper ==
    /\ Len(calls) = Len(wcalls)
    /\ \A i \in 1..Len(wcalls) :
          LET c == wcalls[i] IN
          /\ c.w \in NoArgWrappers => calls[i] = Inv(PlainTag[c.w], None)
          /\ c.w \in StrArgWrappers =>
                calls[i] = Inv(PlainTag[c.w], Some(c.s[1]))
          /\ c.w = "send_network" =>
                /\ calls[i].type_string = PlainTag[c.w]
                /\ IsSome(calls[i].data)
                /\ MetricsTextOf(calls[i].data[1], c.m[1])
          /\ c.w = "observing" =>
                calls[i] = Inv(IF c.b THEN "observing" ELSE "stop_observing",
                               None)
          /\ c.w = "set_observing" =>
                calls[i] = Inv(IF c.b THEN "set_observing"
                                      ELSE "set_not_observing", Some(c.s[1]))
    /\ wcalls = <<WCall("error", Some("X"), FALSE, None),
                  WCall("connected", None, FALSE, None)>>
          => calls = <<Inv("error", Some("X")), Inv("connected", None)>>

\* C8 witness: error("X") then connected() were called
C8_Witness ==
    /\ wcalls = <<WCall("error", Some("X"), FALSE, None),
                  WCall("connected", None, FALSE, None)>>
    /\ Len(calls) = 2

\* C9: invoke never fails visibly.  Every call returns and the application
\* thread never panics; a call made with the UI side gone (egui: event_rx
\* dropped; webview: no handle stored, or the WebView gone) queues nothing,
\* and nothing stays queued for a UI that is gone.  The call does not wait
\* either: the mutex is held by the UI thread only between its lock and its
\* store, and by the application only inside invoke (or by a process that
\* was aborted inside it).
C9_InvokeNeverFails ==
    /\ appPc # "panicked"
    /\ lastInvoke.called => lastInvoke.outcome = "returned"
    /\ (lastInvoke.called /\ lastInvoke.gone) => ~lastInvoke.queued
    /\ (backend = "egui" /\ ~event_rx_alive) => event_ch = <<>>
    /\ (backend = "webview" /\ ~webLive) => dispatchQ = <<>>
    /\ (mutex = "ui") <=> (uiPc = "locked")
    /\ (appPc = "invoking") => (mutex = "app")
    /\ (mutex = "app") => (appPc \in {"invoking", "aborted"})

\* C9 witness: a recognized event was invoked after the egui UI thread ended
C9_Witness ==
    /\ backend = "egui" /\ exited
    /\ lastInvoke.called /\ lastInvoke.gone /\ lastInvoke.known

\* C10 as stated: in either backend an invoke call with a type string outside
\* the recognized set delivers nothing to the UI.
C10_UnknownTagIgnored ==
    (lastInvoke.called /\ ~lastInvoke.known) => ~lastInvoke.queued

\* C10, amended: EguiBackend::invoke ignores a type string outside the
\* recognized set (nothing is enqueued for it, so no event of such a call is
\* ever queued or handled); WebViewBackend::invoke has no such test and
\* dispatches the script call for every type string while the WebView lives.
C10_UnknownTagNative ==
    /\ backend = "egui" =>
          /\ (lastInvoke.called /\ ~lastInvoke.known) => ~lastInvoke.queued
          /\ LET line == applied \o Ids(event_queue) \o Ids(event_ch) IN
                \A i \in 1..Len(line) :
                   calls[line[i]].type_string \in KnownTags
    /\ backend = "webview" =>
          ((lastInvoke.called /\ ~lastInvoke.gone) => lastInvoke.queued)

\* C10 witness: invoke("bogus", ..) was called on the egui backend while its
\* UI thread was receiving, after an event had been handled
C10_Witness ==
    /\ backend = "egui"
    /\ lastInvoke.called /\ ~lastInvoke.known /\ ~lastInvoke.gone
    /\ Len(applied) >= 1

\* C11: in the WebView backend an invoke call made before the UI thread
\* stored the handle is a no-op.  The call returns without error and queues
\* nothing; no closure of such a call is ever waiting for the WebView and no
\* script of such a call is ever evaluated, then or later; and while no
\* handle is stored nothing at all is scheduled.
C11_NoHandleNoOp ==
    /\ \A i \in 1..Len(dispatchQ) : dispatchQ[i].id \notin lost
    /\ \A i \in 1..Len(evals) : evals[i].id \notin lost
    /\ (~IsSome(app_handle)) => (dispatchQ = <<>> /\ evals = <<>>)
    /\ (appPc = "running" /\ Len(calls) \in lost) =>
          /\ lastInvoke.called /\ lastInvoke.outcome = "returned"
          /\ ~lastInvoke.queued

\* C11 witness: the first call found no handle and returned; the second call
\* was made with the handle stored, and the WebView
\* has evaluated the second call's script and has nothing left to run
C11_Witness ==
    /\ backend = "webview" /\ uiPc = "running"
    /\ lost = {1} /\ Len(calls) = 2
    /\ dispatchQ = <<>>
    /\ Len(evals) = 1 /\ evals[1].id = 2

\* C12: the application thread never waits for the UI thread.  While it is
\* running it can always poll and read the exit flag, whatever the UI thread
\* is doing; on the egui backend it can always invoke, and an invoke of the
\* WebView backend that took the lock can always finish.  The UI thread holds
\* the mutex only between its lock and its store, where its own next step
\* releases it: never while the event loop runs or after it, so the lock of
\* invoke is free in every other state.
C12_AppNeverBlocks ==
    /\ appPc = "running" => (ENABLED AppPoll /\ ENABLED AppExited)
    /\ (backend = "egui" /\ appPc = "running" /\ Len(calls) < MaxInvokes)
          => ENABLED EguiInvoke
    /\ appPc = "invoking" => ENABLED WebInvokeBody
    /\ mutex = "ui" => (uiPc = "locked" /\ ENABLED WebStoreHandle)
    /\ (backend = "webview" /\ appPc = "running" /\ Len(calls) < MaxInvokes
          /\ uiPc # "locked") => ENABLED WebInvokeLock

\* C12 witness: invoke holds the lock while the event loop of the WebView
\* runs with a closure still to run, after an earlier poll found nothing
C12_Witness ==
    /\ backend = "webview" /\ uiPc = "running"
    /\ appPc = "invoking" /\ mutex = "app"
    /\ dispatchQ # <<>> /\ lastPoll = "Empty"

\* a step of ReducerSpec in which the event of kind k was handled
Handles(k) ==
    /\ handled'.n = handled.n + 1
    /\ IsSome(handled'.ev) /\ handled'.ev[1].kind = k

\* the roster entries that have control
InControl(clients) == {i \in 1..Len(clients) : clients[i].has_control}

\* C13: the roster invariant.  Whatever events were handled, peers of the
\* same name included, at most one roster entry has has_control = TRUE.
C13_AtMostOneInControl ==
    Cardinality(InControl(app.clients)) <= 1

\* C13 witness: two peers of one name and a third are on the roster and
\* control was given to that name: one entry has it
C13_Witness ==
    /\ handled.n = 4
    /\ handled.call = Some(Inv("set_incontrol", Some("Alice")))
    /\ Len(app.clients) = 3
    /\ app.clients[2].name = "Alice" /\ app.clients[3].name = "Alice"
    /\ InControl(app.clients) = {2}

\* C14: handling SetInControl(name) leaves has_control on exactly the
\* matching entry, which is the first entry of that name, and on no entry
\* when no entry has the name; names, observer flags and the rest of the
\* render state stay as they were.
C14_ControlOnMatchOnly ==
    [][Handles("SetInControl") =>
         LET name == handled'.ev[1].s
             old == app.clients
             new == app'.clients
         IN /\ Len(new) = Len(old)
            /\ \A i \in 1..Len(old) :
                  /\ new[i].name = old[i].name
                  /\ new[i].is_observer = old[i].is_observer
                  /\ new[i].has_control <=>
                        /\ old[i].name = name
                        /\ \A j \in 1..(i - 1) : old[j].name # name
            /\ (\A i \in 1..Len(old) : old[i].name # name)
                  => InControl(new) = {}
            /\ app' = [app EXCEPT !.clients = new]]_vars

\* C14 witness: Alice and Bob are on the roster and control went to Alice
\* last: she has it and Bob does not
C14_Witness ==
    /\ handled.n = 4
    /\ handled.call = Some(Inv("set_incontrol", Some("Alice")))
    /\ Len(app.clients) = 2
    /\ app.clients[1] = [name |-> "Bob", has_control |-> FALSE,
                         is_observer |-> FALSE]
    /\ app.clients[2] = [name |-> "Alice", has_control |-> TRUE,
                         is_observer |-> FALSE]

\* C15: handling LostConnection(name) removes every roster entry of that
\* name and keeps all other entries, with their flags and in their order;
\* with no entry of that name the roster is unchanged.  Nothing else of the
\* render state changes.
C15_LostConnectionFrame ==
    [][Handles("LostConnection") =>
         LET name == handled'.ev[1].s
             Other(c) == c.name # name
         IN /\ app'.clients = SelectSeq(app.clients, Other)
            /\ (\A i \in 1..Len(app.clients) : app.clients[i].name # name)
                  => app'.clients = app.clients
            /\ app' = [app EXCEPT !.clients = app'.clients]]_vars

\* C15 witness: Alice left a roster of Alice and Bob, and Bob's entry kept
\* the control flag it had
C15_Witness ==
    /\ handled.n = 4
    /\ handled.call = Some(Inv("lostconnection", Some("Alice")))
    /\ app.clients = <<[name |-> "Bob", has_control |-> TRUE,
                        is_observer |-> FALSE]>>

\* C16: handling AddAircraft(name) on the list a new backend starts with
\* makes the list exactly <<name>>; on a list that is not the one placeholder
\* entry it appends name and keeps the entries that were there, in order.
C16_AddAircraft ==
    [][Handles("AddAircraft") =>
         LET name == handled'.ev[1].s
             old == app.aircraft_list
             new == app'.aircraft_list
         IN /\ old = NewApp.aircraft_list => new = <<name>>
            /\ old # <<"Select an aircraft...">> =>
                  /\ Len(new) = Len(old) + 1
                  /\ new[Len(new)] = name
                  /\ \A i \in 1..Len(old) : new[i] = old[i]
            /\ app' = [app EXCEPT !.aircraft_list = new]]_vars

\* C16 witness: two aircraft were added to a new backend
C16_Witness ==
    /\ handled.n = 2
    /\ handled.call = Some(Inv("add_aircraft", Some("B737")))
    /\ app.aircraft_list = <<"A320", "B737">>

\* the value a metrics field takes from the payload: the member when the
\* key is there with a JSON number of the field's kind, else 0
Counter(obj, key) ==
    IF key \in DOMAIN obj.f /\ obj.f[key].t = "u64"
    THEN obj.f[key].n \div 100 ELSE 0
Gauge(obj, key) ==
    IF key \in DOMAIN obj.f /\ obj.f[key].t \in {"u64", "i64", "f64"}
    THEN obj.f[key].n ELSE 0

\* C17: an invoke("metrics", data) whose data is a JSON object always makes
\* a SendMetrics event, and each of its six fields is the payload's value
\* for its key when the key is there and is a number of the field's kind
\* (a non-negative integer for the two packet counters, any number for the
\* other four), and 0 otherwise, each key on its own; handling the event
\* stores the two bandwidths, the packet loss and the ping.
C17_MetricsPerKey ==
    (/\ IsSome(handled.call) /\ handled.call[1].type_string = "metrics"
     /\ IsSome(handled.call[1].data)
     /\ IsSome(ParseJson(handled.call[1].data[1]))
     /\ ParseJson(handled.call[1].data[1])[1].t = "obj")
    => LET obj == ParseJson(handled.call[1].data[1])[1] IN
          /\ IsSome(handled.ev) /\ handled.ev[1].kind = "SendMetrics"
          /\ handled.ev[1].m =
                [sent_packets |-> Counter(obj, "sentPackets"),
                 received_packets |-> Counter(obj, "receivePackets"),
                 sent_kbps |-> Gauge(obj, "sentBandwidth"),
                 receive_kbps |-> Gauge(obj, "receiveBandwidth"),
                 packet_loss |-> Gauge(obj, "packetLoss"),
                 ping |-> Gauge(obj, "ping")]
          /\ app.upload_bandwidth = Gauge(obj, "sentBandwidth")
          /\ app.download_bandwidth = Gauge(obj, "receiveBandwidth")
          /\ app.packet_loss = Gauge(obj, "packetLoss")
          /\ app.ping = Gauge(obj, "ping")

\* C17 witness: after a full snapshot, a payload with a string for
\* sentPackets, a boolean for ping and a well-typed packetLoss was handled
C17_Witness ==
    /\ handled.n = 2
    /\ handled.call = Some(Inv("metrics",
          Some("{\"sentPackets\":\"3\",\"ping\":true,\"packetLoss\":0.25}")))
    /\ IsSome(handled.ev)
    /\ handled.ev[1].m.packet_loss = 25 /\ handled.ev[1].m.ping = 0
    /\ handled.ev[1].m.sent_packets = 0
    /\ app.packet_loss = 25 /\ app.upload_bandwidth = 0

\* the three tokens as the wire contract spells them, as JSON strings
DirectText == <<"\"", "d", "i", "r", "e", "c", "t", "\"">>
RelayText == <<"\"", "r", "e", "l", "a", "y", "\"">>
CloudServerText ==
    <<"\"", "c", "l", "o", "u", "d", "S", "e", "r", "v", "e", "r", "\"">>

C19_DrainSnapshot ==
    IsSome(tick.began) =>
       \A i \in 1..Len(event_queue) : event_queue[i].id <= tick.began[1]

\* C19, amended: the drain of a tick goes on until a try_recv finds the
\* channel empty.  Once it has ended, the local queue and the events handled
\* hold every event published before that last try_recv, those published
\* while the drain was in progress included, and only events published
\* after it wait in the channel for the next tick.
C19_DrainUntilEmpty ==
    IsSome(tick.ended) =>
       /\ uiPc \in {"handle", "render"}
       /\ \A i \in 1..Len(event_queue) : event_queue[i].id <= tick.ended[1]
       /\ \A i \in 1..Len(event_ch) : event_ch[i].id > tick.ended[1]
       /\ tick.began[1] <= tick.ended[1]

\* C19 witness: the drain began with one event queued, a second one was
\* published while it ran, and the drain ended with both in the local queue
C19_Witness ==
    /\ backend = "egui" /\ uiPc = "handle"
    /\ tick = [began |-> Some(1), ended |-> Some(2)]
    /\ Ids(event_queue) = <<1, 2>>
    /\ event_ch = <<>>

\* C20: rendering never sees a batch half applied.  In a tick the events
\* are first moved to the local queue and then all handled: while the drain
\* runs nothing of the tick is handled yet, the local queue is empty whenever
\* the UI thread is rendering or between two ticks, and what was handled is
\* then every event the drain took, in order.  A user's message is sent
\* only by the render step.
C20_BatchBeforeRender ==
    /\ uiPc \notin {"drain", "handle"} => event_queue = <<>>
    /\ uiPc = "render" =>
          /\ IsSome(tick.ended)
          /\ \A i \in 1..Len(calls) :
                (i <= tick.ended[1] /\ IsSome(NativeEvent(calls[i].type_string,
                                                         calls[i].data)))
                   => \E j \in 1..Len(applied) : applied[j] = i
          /\ app = Reduce(NewApp, applied)

\* C20 witness: the render step runs after a tick that handled two events
C20_Witness ==
    /\ backend = "egui" /\ uiPc = "render"
    /\ applied = <<1, 2>> /\ tick.began = Some(2)
    /\ event_queue = <<>>

\* C21: the connected flag of the render state.  Handling Error, ServerFail
\* or ClientFail leaves it FALSE, handling Connected or ServerStarted leaves
\* it TRUE, and handling any other event leaves it as it was; it is FALSE
\* before any event.
C21_ConnectedFlag ==
    /\ [][handled'.n = handled.n + 1 =>
            app'.is_connected =
               IF IsSome(handled'.ev)
                  /\ handled'.ev[1].kind \in {"Error", "ServerFail", "ClientFail"}
               THEN FALSE
               ELSE IF IsSome(handled'.ev)
                       /\ handled'.ev[1].kind \in {"Connected", "ServerStarted"}
                    THEN TRUE
                    ELSE app.is_connected]_vars
    /\ [][handled.n = 0 => ~app.is_connected]_vars

\* C21 witness: the server started, a peer joined, and the flag is still set
\* after the roster events that followed
C21_Witness ==
    /\ handled.n = 3
    /\ handled.call = Some(Inv("set_incontrol", Some("Alice")))
    /\ app.is_connected
    /\ app.status_message = <<"Server started">>
    /\ Len(app.clients) = 1

\* C22: handling ClientFail empties the roster, so that no peer is left with
\* control or as observer; handling ServerFail or Error leaves the roster
\* exactly as it was.
C22_FailureRoster ==
    [][/\ Handles("ClientFail") => app'.clients = <<>>
       /\ (Handles("ServerFail") \/ Handles("Error"))
             => app'.clients = app.clients]_vars

\* C22 witness: a client failure was handled after three other events and
\* the roster is empty
C22_Witness ==
    /\ handled.n = 4
    /\ handled.call = Some(Inv("client_fail", Some("X")))
    /\ app.clients = <<>>
    /\ app.status_message = <<"Client failed: ", "X">>

\* a step of SessionSpec that handled SendConfig with a text that parses
ConfigParsed ==
    /\ Handles("SendConfig")
    /\ IsSome(ParseJson(handled'.ev[1].s))

\* C23: handling SendConfig changes nothing but username, port, connection
\* timeout and dark theme, and each of these only when its key (name, port,
\* conn_timeout, ui_dark_theme) is in the payload with a value of its type
\* (a string, a non-negative integer, a non-negative integer, a boolean):
\* the field then takes that value, and keeps its old value otherwise.  A
\* text that is no JSON leaves the whole render state as it was.
C23_ConfigFrame ==
    [][Handles("SendConfig") =>
         IF ~IsSome(ParseJson(handled'.ev[1].s)) THEN app' = app
         ELSE LET v == ParseJson(handled'.ev[1].s)[1]
                  Has(k, t) == v.t = "obj" /\ k \in DOMAIN v.f /\ v.f[k].t = t
              IN /\ app'.username =
                       IF Has("name", "str") THEN v.f["name"].s
                       ELSE app.username
                 /\ app'.port =
                       IF Has("port", "u64")
                       THEN U64ToString(v.f["port"].n \div 100)
                       ELSE app.port
                 /\ app'.connection_timeout =
                       IF Has("conn_timeout", "u64")
                       THEN U64ToString(v.f["conn_timeout"].n \div 100)
                       ELSE app.connection_timeout
                 /\ app'.dark_theme =
                       IF Has("ui_dark_theme", "bool")
                       THEN v.f["ui_dark_theme"].b
                       ELSE app.dark_theme
                 /\ app' = [app EXCEPT
                              !.username = app'.username,
                              !.port = app'.port,
                              !.connection_timeout = app'.connection_timeout,
                              !.dark_theme = app'.dark_theme]]_vars

\* C23 witness: after a full configuration, a payload with a mistyped name,
\* port and timeout and no other change was handled on a session that is
\* connected with a peer on the roster
C23_Witness ==
    /\ handled.n = 4
    /\ handled.call = Some(Inv("config_msg",
          Some("{\"conn_timeout\":2.5,\"name\":5,\"port\":\"8080\",\"ui_dark_theme\":true}")))
    /\ app.username = "Bob" /\ app.port = "8080"
    /\ app.connection_timeout = "60" /\ app.dark_theme
    /\ app.is_connected /\ Len(app.clients) = 1

\* C24: the handle of the WebView backend starts empty, is written once, by
\* the UI thread between its lock and the start of its event loop, and is
\* never empty again: it is empty until that store and set from then on,
\* also after the loop has ended.  The store is made with the mutex held by
\* the UI thread, and invoke reads the handle only with the mutex held by
\* the application thread.
C24_HandleWrittenOnce ==
    /\ [](backend = "webview" =>
            /\ uiPc \in {"spawned", "built", "locked"} => app_handle = None
            /\ uiPc \in {"running", "returned", "done"} => IsSome(app_handle)
            /\ appPc = "invoking" => mutex = "app")
    /\ [][app_handle' # app_handle =>
            /\ app_handle = None /\ IsSome(app_handle')
            /\ mutex = "ui" /\ uiPc = "locked" /\ uiPc' = "running"]_vars

\* C24 witness: the event loop has ended and the exit flag is stored, the
\* handle is still set, and an invoke made after that read it
C24_Witness ==
    /\ backend = "webview" /\ uiPc = "done"
    /\ IsSome(app_handle)
    /\ lastInvoke.called /\ lastInvoke.gone /\ Len(calls) \notin lost
    /\ appPc = "running"

\* C25: the script the WebView backend evaluates for an invoke call is one
\* MessageReceived(..) call whose argument has exactly the fields type and
\* data: type is the type string of the call, data is the data string of
\* the call, and the empty string when the call had none.
C25_WireMessage ==
    \A i \in 1..Len(evals) :
       LET script == evals[i].script
           c == calls[evals[i].id]
       IN /\ DOMAIN script = {"fn", "arg"}
          /\ script.fn = "MessageReceived"
          /\ DOMAIN script.arg = {"type", "data"}
          /\ script.arg.type = c.type_string
          /\ script.arg.data = IF c.data = None THEN "" ELSE c.data[1]

\* C25 witness: a call without data and a call with data were evaluated
C25_Witness ==
    /\ Len(evals) = 2
    /\ calls[evals[1].id].data = None
    /\ evals[1].script.arg.data = ""
    /\ calls[evals[2].id].data = Some("X")
    /\ evals[2].script.arg.data = "X"

\* the UiEvent variant each convenience method stands for
WrapperVariant ==
    [w \in NoArgWrappers \cup StrArgWrappers |->
        CASE w = "error" -> "Error"
          [] w = "attempt" -> "Attempt"
          [] w = "connected" -> "Connected"
          [] w = "server_fail" -> "ServerFail"
          [] w = "client_fail" -> "ClientFail"
          [] w = "gain_control" -> "GainControl"
          [] w = "lose_control" -> "LoseControl"
          [] w = "server_started" -> "ServerStarted"
          [] w = "set_session_code" -> "SessionCode"
          [] w = "set_host" -> "SetHost"
          [] w = "new_connection" -> "NewConnection"
          [] w = "lost_connection" -> "LostConnection"
          [] w = "set_incontrol" -> "SetInControl"
          [] w = "add_aircraft" -> "AddAircraft"
          [] w = "version" -> "Version"
          [] w = "update_failed" -> "UpdateFailed"
          [] w = "send_config" -> "SendConfig"]

\* C26: every convenience method is understood by EguiBackend::invoke.  For
\* the method call made last while the window was up, exactly one event was
\* enqueued and handled: it is of the method's variant and carries the
\* method's string argument; observing(b) gives Observing(b) and
\* set_observing(n, b) gives SetObserving(n, b); send_network gives
\* SendMetrics with the numbers of the snapshot.  One event was handled for
\* each method call made.
C26_WrappersUnderstood ==
    /\ handled.n = Len(wcalls)
    /\ wcalls # <<>> =>
          LET c == wcalls[Len(wcalls)] IN
          /\ IsSome(handled.ev)
          /\ c.w \in NoArgWrappers =>
                handled.ev[1].kind = WrapperVariant[c.w]
          /\ c.w \in StrArgWrappers =>
                /\ handled.ev[1].kind = WrapperVariant[c.w]
                /\ handled.ev[1].s = c.s[1]
          /\ c.w = "observing" =>
                /\ handled.ev[1].kind = "Observing"
                /\ handled.ev[1].b = c.b
          /\ c.w = "set_observing" =>
                /\ handled.ev[1].kind = "SetObserving"
                /\ handled.ev[1].s = c.s[1]
                /\ handled.ev[1].b = c.b
          /\ c.w = "send_network" =>
                /\ handled.ev[1].kind = "SendMetrics"
                /\ handled.ev[1].m =
                      [sent_packets |-> c.m[1].sent_packets,
                       received_packets |-> c.m[1].received_packets,
                       sent_kbps |-> c.m[1].sent_kbps,
                       receive_kbps |-> c.m[1].receive_kbps,
                       packet_loss |-> c.m[1].packet_loss,
                       ping |-> c.m[1].rtt \div 2]

\* C26 witness: set_observing("Bob", FALSE) was called after
\* new_connection("Bob"), and its event was handled
C26_Witness ==
    /\ wcalls = <<WCall("new_connection", Some("Bob"), FALSE, None),
                  WCall("set_observing", Some("Bob"), FALSE, None)>>
    /\ handled.n = 2
    /\ handled.ev = Some(UiEvent("SetObserving", "Bob", FALSE, NoMetrics))
    /\ Len(app.clients) = 1

\* the event of the i-th invoke call is on the outbound channel
Enqueued(i) == \E k \in 1..Len(event_ch) : event_ch[k].id = i

\* the event of the i-th invoke call was handled, once
AppliedOnce(i) == Cardinality({k \in 1..Len(applied) : applied[k] = i}) = 1

\* C27: while the egui UI thread keeps running frames, every event invoke
\* has enqueued is handled, exactly once; it is lost only when run_native
\* returns before a frame has drained it.
C27_EnqueuedEventuallyApplied ==
    /\ \A i \in 1..MaxInvokes :
          Enqueued(i) ~> (AppliedOnce(i) \/ ~event_rx_alive)
    /\ [][\A i \in 1..MaxInvokes : AppliedOnce(i) => AppliedOnce(i)']_vars

\* C27 witness: two events were enqueued while a frame was in progress and
\* have been handled in a later frame
C27_Witness ==
    /\ backend = "egui" /\ uiPc = "render"
    /\ Len(calls) = 2 /\ applied = <<1, 2>>
    /\ tick.began = Some(2)
    /\ event_rx_alive

\* the message is InboundAppMessage::Startup
IsStartup(m) == m.type = "Startup"

\* C28: on the egui backend Startup is sent once, when the app is built:
\* it is the first message sent and so the first message get_next_message
\* returns, no other message sent or returned is a Startup, and nothing is
\* sent before the app is built.
C28_StartupFirst ==
    backend = "egui" =>
       /\ uiPc = "spawned" => sent = <<>>
       /\ uiPc # "spawned" => (sent # <<>> /\ IsStartup(sent[1]))
       /\ \A i \in 2..Len(sent) : ~IsStartup(sent[i])
       /\ received # <<>> => IsStartup(received[1])
       /\ \A i \in 2..Len(received) : ~IsStartup(received[i])

\* C28 witness: get_next_message returned Startup and then the message of a
\* click on the host button
C28_Witness ==
    /\ backend = "egui"
    /\ Len(received) = 2
    /\ received[1] = [type |-> "Startup"]
    /\ received[2].type = "StartServer"

\* C29: on the egui backend the aircraft list is never empty and the
\* selected index is smaller than its length, whatever the order of
\* add_aircraft events and of the user's selections, so that the combo box's
\* aircraft_list[selected_aircraft] is in bounds.
C29_SelectionInBounds ==
    backend = "egui" =>
       /\ Len(app.aircraft_list) >= 1
       /\ app.selected_aircraft \in 0..(Len(app.aircraft_list) - 1)
       /\ app.selected_aircraft + 1 \in DOMAIN app.aircraft_list

\* C29 witness: the user selected the last of two aircraft, a third was
\* added, and the user selected that one
C29_Witness ==
    /\ backend = "egui"
    /\ Len(app.aircraft_list) = 3
    /\ app.selected_aircraft = 2
    /\ Len(sent) = 3
    /\ sent[2].type = "LoadAircraft" /\ sent[3].type = "LoadAircraft"
    /\ sent[2].config_file_name = app.aircraft_list[2]
    /\ sent[3].config_file_name = SelectedText(app)
    /\ handled.n = 3

\* the step is a click on button b
Clicked(b) == clicks' = Append(clicks, b)

\* C30: on the egui backend a click on the host or the join button sends
\* exactly one message, chosen by the connected flag at the click:
\* Disconnect if it is set, else StartServer for the host button and Connect
\* for the join button; a Connect with method Direct has no session code,
\* and a Connect with another method has the session code, no IP and no
\* port.
C30_ClickMessage ==
    [][\A b \in {"host", "join"} :
          (backend = "egui" /\ Clicked(b)) =>
             /\ Len(sent') = Len(sent) + 1
             /\ SubSeq(sent', 1, Len(sent)) = sent
             /\ inbound' = Append(inbound, sent'[Len(sent')])
             /\ LET m == sent'[Len(sent')] IN
                   /\ app.is_connected => m = [type |-> "Disconnect"]
                   /\ (~app.is_connected /\ b = "host") =>
                         m.type = "StartServer"
                   /\ (~app.is_connected /\ b = "join") =>
                         /\ m.type = "Connect"
                         /\ m.method = app.client_connection_method
                         /\ m.method = "Direct" => m.session_id = None
                         /\ m.method # "Direct" =>
                               /\ m.session_id = Some(app.session_code)
                               /\ m.ip = None
                               /\ m.port = None]_vars

\* C30 witness: with the session code ABC typed and then Direct chosen, a
\* click on the join button sent a Connect with method Direct
C30_Witness ==
    /\ backend = "egui"
    /\ clicks = <<"join">>
    /\ app.session_code = "ABC"
    /\ Len(sent) = 2
    /\ sent[2].type = "Connect" /\ sent[2].method = "Direct"
    /\ sent[2].ip = Some("127.0.0.1")

====
